---- MODULE Spec2Model ----
(***************************************************************************)
(* A model of sf2convert (Source/sf2convert.cpp, Source/sfont.cpp,         *)
(* Source/sfont.h): the SoundFont reader, the in-memory model, the writer   *)
(* and the command-line driver.                                            *)
(*                                                                         *)
(* A file is a flat stream of items, as the sequential reader meets them:   *)
(* a LIST header [id |-> "LIST", len, body |-> list type] or a leaf chunk   *)
(* [id, len, body].  len is the declared 32-bit length; body is what is     *)
(* stored: bytes for ifil and the INFO strings, records for the pdta        *)
(* tables, cells for smpl.  32-bit values are kept as their two's           *)
(* complement bit pattern (a uint above 2^31-1 shows as a negative number)  *)
(* so that wrap-around is exact and an int/uint conversion is a no-op.      *)
(***************************************************************************)
EXTENDS Integers, Sequences, FiniteSets, TLC

\* ------------------------------------------------------------------------
\* Machine integers
\* ------------------------------------------------------------------------

MaxI32 == 2147483647
MinI32 == (0 - MaxI32) - 1

\* 32-bit addition with wrap-around, on bit patterns.
Add32(a, b) ==
    IF a >= 0 /\ b >= 0 /\ b > MaxI32 - a THEN (a + MinI32) + (b + MinI32)
    ELSE IF a < 0 /\ b < 0 /\ b < MinI32 - a THEN (a - MinI32) + (b - MinI32)
    ELSE a + b

\* 32-bit subtraction with wrap-around, on bit patterns.
Sub32(a, b) ==
    IF b = MinI32 THEN (IF a < 0 THEN a - MinI32 ELSE a + MinI32)
    ELSE Add32(a, 0 - b)

\* Unsigned comparison of two 32-bit patterns.
ULe(a, b) == IF (a >= 0) = (b >= 0) THEN a <= b ELSE a >= 0

\* Conversion to unsigned short (writeWord's parameter type).
WordMod == 65536
ToWord(v) == v % WordMod

\* Bytes written by writeDword, writeWord/writeShort, writeByte/writeChar.
DwordBytes == 4
WordBytes == 2
ByteBytes == 1

Min(a, b) == IF a <= b THEN a ELSE b

\* Integer division as C does it: the quotient is rounded towards zero.
Quot(a, b) == IF a >= 0 THEN a \div b ELSE 0 - ((0 - a) \div b)

RECURSIVE SumSeq(_)
SumSeq(s) == IF s = <<>> THEN 0 ELSE Head(s) + SumSeq(Tail(s))

\* ------------------------------------------------------------------------
\* Strings.  A String is a sequence of non-zero character codes; on disk a
\* string is a byte sequence.
\* ------------------------------------------------------------------------

\* Width of the name field of phdr, inst, shdr and shdX records.
NameLen == 20

\* strlen / String::fromUTF8: the bytes before the first NUL.
RECURSIVE CStr(_)
CStr(bytes) ==
    IF bytes = <<>> \/ Head(bytes) = 0 THEN <<>>
    ELSE <<Head(bytes)>> \o CStr(Tail(bytes))

Zeros(n) == [i \in 1..n |-> 0]

\* SoundFont::readString(n) on a chunk body or field holding `bytes`:
\* the String read and the number of bytes consumed.
readString(bytes, n) ==
    IF n = 0 THEN [str |-> <<>>, used |-> 0]
    ELSE LET m == IF n > 2014 THEN 1024 ELSE n
         IN  [str |-> CStr(SubSeq(bytes, 1, Min(m, Len(bytes)))), used |-> m]

\* SoundFont::writeString(string, size): the bytes written.
writeString(string, size) ==
    LET k == Min(Min(1024, size), Len(string))
    IN  SubSeq(string, 1, k) \o Zeros(Min(1024, size) - k)

\* ------------------------------------------------------------------------
\* Generator lists.  An OwnedArray<GeneratorList> is kept run-length encoded:
\* a sequence of runs [n |-> count, v |-> generator], every count positive
\* and adjacent runs of different value, so that equal lists have equal
\* encodings and lists of more than 65535 entries stay representable.
\* ------------------------------------------------------------------------

RECURSIVE RunLen(_)
RunLen(r) == IF r = <<>> THEN 0 ELSE Head(r).n + RunLen(Tail(r))

\* n further entries of value v at the end of r.
RunAppend(r, n, v) ==
    IF n <= 0 THEN r
    ELSE IF r # <<>> /\ r[Len(r)].v = v
         THEN [r EXCEPT ![Len(r)].n = @ + n]
         ELSE Append(r, [n |-> n, v |-> v])

RECURSIVE RunCat(_, _)
RunCat(a, b) ==
    IF b = <<>> THEN a ELSE RunCat(RunAppend(a, Head(b).n, Head(b).v), Tail(b))

\* The first k entries of r (all of r when it is shorter).
RECURSIVE RunTake(_, _)
RunTake(r, k) ==
    IF k <= 0 \/ r = <<>> THEN <<>>
    ELSE IF Head(r).n >= k THEN <<[n |-> k, v |-> Head(r).v]>>
    ELSE <<Head(r)>> \o RunTake(Tail(r), k - Head(r).n)

\* r without its first k entries.
RECURSIVE RunDrop(_, _)
RunDrop(r, k) ==
    IF k <= 0 \/ r = <<>> THEN r
    ELSE IF Head(r).n > k THEN <<[n |-> Head(r).n - k, v |-> Head(r).v]>> \o Tail(r)
    ELSE RunDrop(Tail(r), k - Head(r).n)

\* ------------------------------------------------------------------------
\* Model entities (sfont.h)
\* ------------------------------------------------------------------------

Gen_Instrument == 41
Gen_KeyRange == 43
Gen_VelRange == 44

\* GeneratorList(): zerostruct.
ZeroGenerator == [gen |-> 0, amount |-> [lo |-> 0, hi |-> 0]]

\* ModulatorList(): zerostruct.
ZeroModulator == [src |-> 0, dst |-> 0, amount |-> 0, amtSrc |-> 0, transform |-> 0]

\* A new Zone.
NewZone == [generators |-> <<>>, modulators |-> <<>>]

\* Preset(): all fields zero, the name empty, no zones.  zones holds the
\* indices of the preset's zones in the flat array _pZones, which points at
\* the same Zone objects.
NewPreset ==
    [name |-> <<>>, preset |-> 0, bank |-> 0, library |-> 0, genre |-> 0,
     morphology |-> 0, zones |-> <<>>]

\* Instrument().
NewInstrument == [name |-> <<>>, zones |-> <<>>]

\* SampleMeta().
NewSampleMeta == [name |-> <<>>, samples |-> 0, loopstart |-> 0, loopend |-> 0]

Mono == 1
TypeVorbis == 16
TypeFlac == 32

\* Sample::Sample().  A pointer is a sequence: <<>> is nullptr, <<x>> points
\* at x; sampleDataSize is the length of the array sampleData points at.
NewSample ==
    [name |-> <<>>, start |-> 0, end |-> 0, loopstart |-> 0, loopend |-> 0,
     samplerate |-> 0, origpitch |-> 0, pitchadj |-> 0, sampleLink |-> 0,
     sampletype |-> Mono, sampleData |-> <<>>, meta |-> <<>>]

HasBit(v, b) == (v \div b) % 2 = 1
ClearBit(v, b) == IF HasBit(v, b) THEN v - b ELSE v
SetBit(v, b) == IF HasBit(v, b) THEN v ELSE v + b

\* setCompressionType as it would be if it set its bit without clearing
\* the other one.
setCompressionTypeNoClear(sampletype, c) ==
    CASE c = "Vorbis" -> SetBit(sampletype, TypeVorbis)
      [] c = "Flac"   -> SetBit(sampletype, TypeFlac)
      [] OTHER        -> ClearBit(ClearBit(sampletype, TypeVorbis), TypeFlac)

\* Sample::setCompressionType(c): the new sampletype.
setCompressionType(sampletype, c) ==
    LET cleared == ClearBit(ClearBit(sampletype, TypeVorbis), TypeFlac)
    IN  CASE c = "Vorbis" -> SetBit(cleared, TypeVorbis)
          [] c = "Flac"   -> SetBit(cleared, TypeFlac)
          [] OTHER        -> cleared

\* Sample::numSamples().
numSamples(s) ==
    IF s.sampleData # <<>> THEN Len(s.sampleData[1]) ELSE Sub32(s.end, s.start)

\* createMeta as it would be if it left the loop points of the new meta
\* as SampleMeta() sets them.
createMetaLoopsUnset(s) ==
    [s EXCEPT !.meta = <<[name |-> s.name, samples |-> numSamples(s),
                          loopstart |-> 0, loopend |-> 0]>>]

\* Sample::createMeta(): the sample with its new meta.
createMeta(s) ==
    [s EXCEPT !.meta = <<[name |-> s.name, samples |-> numSamples(s),
                          loopstart |-> s.loopstart, loopend |-> s.loopend]>>]

\* Sample::checkMeta().
checkMeta(s) ==
    IF s.meta = <<>> THEN TRUE
    ELSE /\ s.meta[1].samples = numSamples(s)
         /\ Sub32(s.meta[1].loopend, s.meta[1].loopstart) = Sub32(s.loopend, s.loopstart)

\* ------------------------------------------------------------------------
\* The reader.  A handler gets the SoundFont object o, the declared length
\* of its chunk and the chunk's body, and yields [st, o, used]: st is "ok"
\* (returned), "throw" (threw a String or a const char*) or "crash" (left
\* by undefined behaviour or an exception read() does not catch); used is
\* the number of bytes it consumed.  A handler that runs past the body of
\* its chunk reads the bytes of the next header as data (or meets the end of
\* the file) and leaves the stream misaligned; it is modelled as throwing,
\* which is where read() ends in that case.
\* ------------------------------------------------------------------------

Ok(o, used) == [st |-> "ok", o |-> o, used |-> used]
Throw(o) == [st |-> "throw", o |-> o, used |-> 0]
Crash(o) == [st |-> "crash", o |-> o, used |-> 0]

\* readShort(): a 16-bit pattern as a signed short widened to int.
readShort(w) == IF w >= 32768 THEN w - WordMod ELSE w

\* readChar(): a byte as a (signed) char widened to int.
readChar(b) == IF b >= 128 THEN b - 256 ELSE b

\* SoundFont::readVersion().
readVersion(o, len, body) ==
    IF Len(body) < 4 THEN Throw(o)
    ELSE LET major == body[1] + body[2] * 256
             minor == body[3] + body[4] * 256
         IN  Ok([o EXCEPT !._version = <<[major |-> major, minor |-> minor]>>,
                          !._fileFormatIn = IF major = 4 THEN "SF4Format"
                                            ELSE IF major = 3 THEN "SF3Format"
                                            ELSE "SF2Format"],
                4)

\* readSection's INFO cases: field = readString(len).
readInfoString(o, field, len, body) ==
    LET r == readString(body, len)
    IN  IF r.used > Len(body) THEN Throw(o)
        ELSE Ok([o EXCEPT ![field] = r.str], r.used)

\* readSection's smpl case: remember where the chunk is (pos is the index
\* of the item in the stream) and skip it.
readSmpl(o, len, pos) ==
    Ok([o EXCEPT !._samplePos = pos, !._sampleLen = len], len)

RemoveLast(s) == IF s = <<>> THEN s ELSE SubSeq(s, 1, Len(s) - 1)

RECURSIVE readPhdrLoop(_, _, _, _, _)

\* The loop of readPhdr as it would be without the comparison of index2
\* with index1.
readPhdrLoopNoIndexCheck(o, n, body, i, index1) ==
    IF i > n THEN Ok([o EXCEPT !._presets = RemoveLast(@)], 38 * n)
    ELSE IF i > Len(body) THEN Throw(o)
    ELSE
      LET rec == body[i]
          index2 == rec.presetBagNdx
          k == IF i > 1 THEN index2 - index1 ELSE 0
          base == Len(o._pZones)
          o1 == IF k > 0
                THEN [o EXCEPT !._pZones = @ \o [j \in 1..k |-> NewZone],
                               !._presets[Len(o._presets)].zones =
                                    @ \o [j \in 1..k |-> base + j]]
                ELSE o
          preset == [NewPreset EXCEPT !.name = readString(rec.name, NameLen).str,
                                      !.preset = rec.preset,
                                      !.bank = rec.bank,
                                      !.library = rec.library,
                                      !.genre = rec.genre,
                                      !.morphology = rec.morphology]
      IN  readPhdrLoop([o1 EXCEPT !._presets = Append(@, preset)], n, body, i + 1, index2)

\* The loop of readPhdr from record i on, index1 being the previous index.
readPhdrLoop(o, n, body, i, index1) ==
    IF i > n THEN Ok([o EXCEPT !._presets = RemoveLast(@)], 38 * n)
    ELSE IF i > Len(body) THEN Throw(o)
    ELSE
      LET rec == body[i]
          index2 == rec.presetBagNdx
          k == IF i > 1 THEN index2 - index1 ELSE 0
          base == Len(o._pZones)
          o1 == IF k > 0
                THEN [o EXCEPT !._pZones = @ \o [j \in 1..k |-> NewZone],
                               !._presets[Len(o._presets)].zones =
                                    @ \o [j \in 1..k |-> base + j]]
                ELSE o
          preset == [NewPreset EXCEPT !.name = readString(rec.name, NameLen).str,
                                      !.preset = rec.preset,
                                      !.bank = rec.bank,
                                      !.library = rec.library,
                                      !.genre = rec.genre,
                                      !.morphology = rec.morphology]
      IN  IF index2 < index1 THEN Throw(o)
          ELSE readPhdrLoop([o1 EXCEPT !._presets = Append(@, preset)],
                            n, body, i + 1, index2)

\* SoundFont::readPhdr(len).
readPhdr(o, len, body) ==
    IF len < 38 * 2 THEN Throw(o)
    ELSE IF len % 38 # 0 THEN Throw(o)
    ELSE readPhdrLoop(o, len \div 38, body, 1, 0)

\* The loop of readBag from zone z on; zs is "_pZones" or "_iZones".
RECURSIVE readBagLoop(_, _, _, _, _, _, _)
readBagLoop(o, zs, body, z, gIndex1, mIndex1, len) ==
    IF z > Len(o[zs]) THEN Ok(o, 4 * (Len(o[zs]) + 1))
    ELSE IF z + 1 > Len(body) THEN Throw(o)
    ELSE
      LET gIndex2 == body[z + 1].gen
          mIndex2 == body[z + 1].mod
          zone == o[zs][z]
          zone1 == [zone EXCEPT
                      !.modulators = @ \o [j \in 1..(mIndex2 - mIndex1) |-> ZeroModulator],
                      !.generators = RunAppend(@, gIndex2 - gIndex1, ZeroGenerator)]
      IN  IF len - 4 < 0 THEN Throw(o)
          ELSE IF gIndex2 < gIndex1 THEN Throw(o)
          ELSE IF mIndex2 < mIndex1 THEN Throw(o)
          ELSE readBagLoop([o EXCEPT ![zs][z] = zone1], zs, body, z + 1,
                           gIndex2, mIndex2, len - 4)

\* SoundFont::readBag(len, zones).
readBag(o, len, body, zs) ==
    IF len % 4 # 0 THEN Throw(o)
    ELSE IF Len(body) < 1 THEN Throw(o)
    ELSE readBagLoop(o, zs, body, 1, body[1].gen, body[1].mod, len - 4)

\* A modulator as readMod fills it from a pmod/imod record.
readModulator(rec) ==
    [src |-> rec.src, dst |-> rec.dst, amount |-> readShort(rec.amount),
     amtSrc |-> rec.amtSrc, transform |-> rec.transform]

\* The loops of readMod from zone z on; done records have been read and
\* size is what is left of the declared size.
RECURSIVE readModLoop(_, _, _, _, _, _)

\* The loops of readMod as they would be without the comparison of the
\* size that is left with the size of the terminator.
readModLoopAnySize(o, zs, body, z, done, size) ==
    IF z > Len(o[zs]) THEN Ok(o, 10 * done + 10)
    ELSE
      LET k == Len(o[zs][z].modulators)
      IN  IF size - 10 * k < 0 THEN Throw(o)
          ELSE IF done + k > Len(body) THEN Throw(o)
          ELSE readModLoop(
                 [o EXCEPT ![zs][z].modulators =
                               [j \in 1..k |-> readModulator(body[done + j])]],
                 zs, body, z + 1, done + k, size - 10 * k)

readModLoop(o, zs, body, z, done, size) ==
    IF z > Len(o[zs]) THEN
        IF size # 10 THEN Throw(o) ELSE Ok(o, 10 * done + 10)
    ELSE
      LET k == Len(o[zs][z].modulators)
      IN  IF size - 10 * k < 0 THEN Throw(o)
          ELSE IF done + k > Len(body) THEN Throw(o)
          ELSE readModLoop(
                 [o EXCEPT ![zs][z].modulators =
                               [j \in 1..k |-> readModulator(body[done + j])]],
                 zs, body, z + 1, done + k, size - 10 * k)

\* SoundFont::readMod(size, zones).
readMod(o, size, body, zs) == readModLoop(o, zs, body, 1, 0, size)

\* A generator as readGen fills it from a pgen/igen record [gen, amount]:
\* the two amount bytes land in the union either as lo and hi or as a word.
readGenerator(rec) ==
    IF rec.gen = Gen_KeyRange \/ rec.gen = Gen_VelRange
    THEN [gen |-> rec.gen, amount |-> [lo |-> rec.amount % 256, hi |-> rec.amount \div 256]]
    ELSE LET word == ToWord(rec.amount)
         IN  [gen |-> rec.gen, amount |-> [lo |-> word % 256, hi |-> word \div 256]]

\* The loop of readGen from zone z on; body is run-length encoded.
RECURSIVE readGenLoop(_, _, _, _, _, _)
readGenLoop(o, zs, body, z, done, size) ==
    IF z > Len(o[zs]) \/ size < 0 THEN
        IF size # 4 THEN Throw(o) ELSE Ok(o, 4 * done + size)
    ELSE
      LET k == RunLen(o[zs][z].generators)
          recs == RunTake(RunDrop(body, done), k)
          size1 == size - k * 4
      IN  IF size1 < 0 THEN readGenLoop(o, zs, body, z, done, size1)
          ELSE IF RunLen(recs) < k THEN Throw(o)
          ELSE readGenLoop(
                 [o EXCEPT ![zs][z].generators =
                     [j \in 1..Len(recs) |-> [n |-> recs[j].n, v |-> readGenerator(recs[j].v)]]],
                 zs, body, z + 1, done + k, size1)

\* SoundFont::readGen(size, zones).
readGen(o, size, body, zs) ==
    IF size % 4 # 0 THEN Throw(o) ELSE readGenLoop(o, zs, body, 1, 0, size)

\* The loop of readInst from record i on.
RECURSIVE readInstLoop(_, _, _, _, _)
readInstLoop(o, n, body, i, index1) ==
    IF i > n THEN Ok([o EXCEPT !._instruments = RemoveLast(@)], IF n > 0 THEN 22 * n ELSE 0)
    ELSE IF i > Len(body) THEN Throw(o)
    ELSE
      LET rec == body[i]
          index2 == rec.instBagNdx
          k == IF i > 1 THEN index2 - index1 ELSE 0
          base == Len(o._iZones)
          o1 == IF k > 0
                THEN [o EXCEPT !._iZones = @ \o [j \in 1..k |-> NewZone],
                               !._instruments[Len(o._instruments)].zones =
                                    @ \o [j \in 1..k |-> base + j]]
                ELSE o
          instrument == [NewInstrument EXCEPT !.name = readString(rec.name, NameLen).str]
      IN  IF index2 < index1 THEN Throw(o)
          ELSE readInstLoop([o1 EXCEPT !._instruments = Append(@, instrument)],
                            n, body, i + 1, index2)

\* SoundFont::readInst(size).
readInst(o, size, body) == readInstLoop(o, Quot(size, 22), body, 1, 0)

\* A Sample as readShdr fills it from a shdr record.
readSample(rec) ==
    [NewSample EXCEPT !.name = readString(rec.name, NameLen).str,
                      !.start = rec.start,
                      !.end = rec.end,
                      !.loopstart = rec.loopstart,
                      !.loopend = rec.loopend,
                      !.samplerate = rec.samplerate,
                      !.origpitch = rec.origpitch,
                      !.pitchadj = readChar(rec.pitchadj),
                      !.sampleLink = rec.sampleLink,
                      !.sampletype = rec.sampletype]

\* SoundFont::readShdr(size): n-1 samples, then skip(46).
readShdr(o, size, body) ==
    LET n == Quot(size, 46)
        k == IF n - 1 > 0 THEN n - 1 ELSE 0
    IN  IF k > Len(body) THEN Throw(o)
        ELSE Ok([o EXCEPT !._samples = @ \o [i \in 1..k |-> readSample(body[i])]],
                46 * k + 46)

SampleMetaSize == 32

\* SoundFont::readShdX(size): createMeta() on the i-th sample, overwritten
\* by the i-th record; _samples[i] is a null pointer when there is no i-th
\* sample.
readShdX(o, size, body) ==
    LET n == Quot(size, SampleMetaSize)
        k == IF n - 1 > 0 THEN n - 1 ELSE 0
    IN  IF k > Len(o._samples) THEN Crash(o)
        ELSE IF k > Len(body) THEN Throw(o)
        ELSE Ok([o EXCEPT !._samples =
                    [i \in 1..Len(o._samples) |->
                        IF i <= k
                        THEN [o._samples[i] EXCEPT !.meta =
                                <<[name |-> readString(body[i].name, NameLen).str,
                                   samples |-> body[i].samples,
                                   loopstart |-> body[i].loopstart,
                                   loopend |-> body[i].loopend]>>]
                        ELSE o._samples[i]]],
                SampleMetaSize * k + SampleMetaSize)

\* readSection's last case, which irom and iver share with every other
\* fourcc: skip(len), then throw "unknown fourcc".
readUnknown(o, len) == Throw(o)

\* SoundFont::readSection(fourcc, len) on the chunk at index pos.
readSection(o, ck, pos) ==
    CASE ck.id = "ifil" -> readVersion(o, ck.len, ck.body)
      [] ck.id = "INAM" -> readInfoString(o, "_name", ck.len, ck.body)
      [] ck.id = "isng" -> readInfoString(o, "_engine", ck.len, ck.body)
      [] ck.id = "IPRD" -> readInfoString(o, "_product", ck.len, ck.body)
      [] ck.id = "IENG" -> readInfoString(o, "_creator", ck.len, ck.body)
      [] ck.id = "ISFT" -> readInfoString(o, "_tools", ck.len, ck.body)
      [] ck.id = "ICRD" -> readInfoString(o, "_date", ck.len, ck.body)
      [] ck.id = "ICMT" -> readInfoString(o, "_comment", ck.len, ck.body)
      [] ck.id = "ICOP" -> readInfoString(o, "_copyright", ck.len, ck.body)
      [] ck.id = "smpl" -> readSmpl(o, ck.len, pos)
      [] ck.id = "phdr" -> readPhdr(o, ck.len, ck.body)
      [] ck.id = "pbag" -> readBag(o, ck.len, ck.body, "_pZones")
      [] ck.id = "pmod" -> readMod(o, ck.len, ck.body, "_pZones")
      [] ck.id = "pgen" -> readGen(o, ck.len, ck.body, "_pZones")
      [] ck.id = "inst" -> readInst(o, ck.len, ck.body)
      [] ck.id = "ibag" -> readBag(o, ck.len, ck.body, "_iZones")
      [] ck.id = "imod" -> readMod(o, ck.len, ck.body, "_iZones")
      [] ck.id = "igen" -> readGen(o, ck.len, ck.body, "_iZones")
      [] ck.id = "shdr" -> readShdr(o, ck.len, ck.body)
      [] ck.id = "shdX" -> readShdX(o, ck.len, ck.body)
      [] ck.id \in {"irom", "iver"} -> readUnknown(o, ck.len)
      [] OTHER -> readUnknown(o, ck.len)

\* Bytes of one record as the write helpers emit it, field by field.
PresetBytes == NameLen + 3 * WordBytes + 3 * DwordBytes
BagBytes == 2 * WordBytes
ModulatorBytes == 5 * WordBytes
GeneratorBytes == WordBytes + 2 * ByteBytes
InstrumentBytes == NameLen + WordBytes
ShdrBytes == NameLen + 5 * DwordBytes + 2 * ByteBytes + 2 * WordBytes
ShdXBytes == NameLen + 3 * DwordBytes

\* The number of body bytes an item holds in the file.
BodyBytes(ck) ==
    CASE ck.id = "LIST" -> 4
      [] ck.id = "smpl" -> IF ck.body.unit = "pcm" THEN WordBytes * Len(ck.body.cells)
                           ELSE Len(ck.body.cells)
      [] ck.id = "phdr" -> PresetBytes * Len(ck.body)
      [] ck.id \in {"pbag", "ibag"} -> BagBytes * Len(ck.body)
      [] ck.id \in {"pmod", "imod"} -> ModulatorBytes * Len(ck.body)
      [] ck.id \in {"pgen", "igen"} -> GeneratorBytes * RunLen(ck.body)
      [] ck.id = "inst" -> InstrumentBytes * Len(ck.body)
      [] ck.id = "shdr" -> ShdrBytes * Len(ck.body)
      [] ck.id = "shdX" -> ShdXBytes * Len(ck.body)
      [] OTHER -> Len(ck.body)

\* What the walk of read() has done so far, for the properties to look at:
\* exact says that every handler that returned consumed exactly the length
\* declared for its chunk; below says that a loop went on to read a header
\* while its remaining length was negative, that is, beyond the declared
\* end of the enclosing body.
NewTrace == [exact |-> TRUE, below |-> FALSE]

GoingOn(trace, remaining) == [trace EXCEPT !.below = @ \/ remaining < 0]

\* The inner loop of read(): leaf chunks from item i on, until the LIST's
\* remaining length len2 is zero.  aligned says whether the last handler
\* consumed exactly the bytes its chunk holds in the file; when it did not,
\* the next header is read from the middle of a chunk and readSection
\* throws on what it finds there.  A LIST header met here is an unknown
\* fourcc.
RECURSIVE readChunks(_, _, _, _, _, _)
RECURSIVE afterSection(_, _, _, _, _, _)
readChunks(o, items, i, aligned, len2, trace) ==
    IF len2 = 0 THEN [st |-> "ok", o |-> o, i |-> i, aligned |-> aligned, trace |-> trace]
    ELSE IF ~aligned \/ i > Len(items)
    THEN [st |-> "throw", o |-> o, i |-> i, aligned |-> aligned, trace |-> GoingOn(trace, len2)]
    ELSE afterSection(IF items[i].id = "LIST" THEN Throw(o) ELSE readSection(o, items[i], i),
                      items, i, aligned, len2, GoingOn(trace, len2))

\* The rest of one pass of the inner loop, r being what readSection did.
afterSection(r, items, i, aligned, len2, trace) ==
    IF r.st # "ok" THEN [st |-> r.st, o |-> r.o, i |-> i, aligned |-> aligned, trace |-> trace]
    ELSE readChunks(r.o, items, i + 1, r.used = BodyBytes(items[i]),
                    Sub32(len2, Add32(items[i].len, 8)),
                    [trace EXCEPT !.exact = @ /\ r.used = items[i].len])

\* The outer loop of read(): LISTs from item i on, until the RIFF's
\* remaining length len is zero.
RECURSIVE readLists(_, _, _, _, _, _)
RECURSIVE afterList(_, _, _, _)
readLists(o, items, i, aligned, len, trace) ==
    IF len = 0 THEN [st |-> "ok", o |-> o, i |-> i, aligned |-> aligned, trace |-> trace]
    ELSE IF ~aligned \/ i > Len(items)
    THEN [st |-> "throw", o |-> o, i |-> i, aligned |-> aligned, trace |-> GoingOn(trace, len)]
    ELSE IF items[i].id # "LIST"
    THEN [st |-> "throw", o |-> o, i |-> i, aligned |-> aligned, trace |-> GoingOn(trace, len)]
    ELSE afterList(readChunks(o, items, i + 1, TRUE, Sub32(items[i].len, 4),
                              GoingOn(trace, len)),
                   items, items[i].len, len)

\* The rest of one pass of the outer loop, r being what the inner loop did
\* with a LIST of declared length len2.
afterList(r, items, len2, len) ==
    IF r.st # "ok" THEN r
    ELSE readLists(r.o, items, r.i, r.aligned, Sub32(len, Add32(len2, 8)), r.trace)

\* What a read of sample data finds outside the smpl chunk, or in memory it
\* never wrote: a value no 16-bit sample and no byte has.
Junk == 0 - 32769

\* The smpl chunk the object remembers, if any.
SmplBody(o, items) ==
    IF o._samplePos \in 1..Len(items) THEN items[o._samplePos].body
    ELSE [unit |-> "none", cells |-> <<>>]

\* readSampleDataRaw as it would be without the two lines that make
\* the loop points relative.
readSampleDataRawLoopsKept(o, items, s) ==
    LET smpl == SmplBody(o, items)
        n == Sub32(s.end, s.start)
        data == [j \in 1..n |->
                    IF smpl.unit = "pcm" /\ s.start >= 0 /\ s.start + j <= Len(smpl.cells)
                    THEN smpl.cells[s.start + j] ELSE Junk]
    IN  IF n < 0 THEN [st |-> "crash", s |-> s]
        ELSE [st |-> "ok",
              s |-> createMeta([s EXCEPT !.sampleData = <<data>>, !.start = 0, !.end = n])]

\* SoundFont::readSampleDataRaw(s): offsets count shorts.
readSampleDataRaw(o, items, s) ==
    LET smpl == SmplBody(o, items)
        n == Sub32(s.end, s.start)
        data == [j \in 1..n |->
                    IF smpl.unit = "pcm" /\ s.start >= 0 /\ s.start + j <= Len(smpl.cells)
                    THEN smpl.cells[s.start + j] ELSE Junk]
        s1 == [s EXCEPT !.sampleData = <<data>>,
                        !.loopstart = Sub32(s.loopstart, s.start),
                        !.loopend = Sub32(s.loopend, s.start),
                        !.start = 0,
                        !.end = n]
    IN  IF n < 0 THEN [st |-> "crash", s |-> s]
        ELSE [st |-> "ok", s |-> createMeta(s1)]

\* The codec library: createReaderFor() gives a reader exactly when the
\* bytes are one whole stream of that codec; the reader's lengthInSamples
\* and samples are those the stream holds.
Decodable(codec, bytes) ==
    /\ bytes # <<>>
    /\ bytes[1].codec = codec
    /\ bytes[1].size = Len(bytes)
    /\ \A j \in 2..Len(bytes) : bytes[j].codec = "cont"

\* jassert as it would be if a false expression ended the read of the
\* sample with an exception.
jassertEnforced(expression, then) ==
    IF expression THEN then ELSE [st |-> "throw", s |-> then.s]

\* jassert(expression) followed by the rest of the function: the macro
\* neither throws nor returns, whatever the expression is.
jassert(expression, then) == then

\* SoundFont::readSampleDataVorbis(s) and readSampleDataFlac(s): offsets
\* count bytes.
readSampleDataCompressed(o, items, s, codec) ==
    LET smpl == SmplBody(o, items)
        numBytes == Sub32(s.end, s.start)
        inside == smpl.unit = "bytes" /\ s.start >= 0 /\ s.end <= Len(smpl.cells)
        bytes == IF inside THEN SubSeq(smpl.cells, s.start + 1, s.end) ELSE <<>>
    IN  IF numBytes < 0 THEN [st |-> "crash", s |-> s]
        ELSE IF ~Decodable(codec, bytes) THEN [st |-> "throw", s |-> s]
        ELSE jassert(checkMeta([s EXCEPT !.sampleData = <<bytes[1].pcm>>,
                                         !.start = 0,
                                         !.end = Len(bytes[1].pcm)]),
                     [st |-> "ok",
                      s |-> [s EXCEPT !.sampleData = <<bytes[1].pcm>>,
                                      !.start = 0,
                                      !.end = Len(bytes[1].pcm)]])

\* SoundFont::readSampleData(s).
readSampleData(o, items, s) ==
    CASE o._fileFormatIn = "SF2Format" -> readSampleDataRaw(o, items, s)
      [] o._fileFormatIn = "SF3Format" -> readSampleDataCompressed(o, items, s, "vorbis")
      [] o._fileFormatIn = "SF4Format" -> readSampleDataCompressed(o, items, s, "flac")

\* The loop of read() over _samples from sample i on.
RECURSIVE readAllSampleData(_, _, _)
RECURSIVE afterSampleData(_, _, _, _)
readAllSampleData(o, items, i) ==
    IF i > Len(o._samples) THEN [st |-> "ok", o |-> o]
    ELSE afterSampleData(readSampleData(o, items, o._samples[i]), o, items, i)

\* The rest of one pass of that loop, r being what readSampleData did.
afterSampleData(r, o, items, i) ==
    IF r.st # "ok" THEN [st |-> r.st, o |-> o]
    ELSE readAllSampleData([o EXCEPT !._samples[i] = r.s], items, i + 1)

\* SoundFont::SoundFont(filename).  _version, _samplePos and _sampleLen are
\* not initialised: _version is <<>> until readVersion sets it, _samplePos
\* is 0 until a smpl chunk is met.
NewSoundFont ==
    [_version |-> <<>>, _fileFormatIn |-> "SF2Format", _fileFormatOut |-> "SF2Format",
     _name |-> <<>>, _engine |-> <<>>, _product |-> <<>>, _creator |-> <<>>,
     _tools |-> <<>>, _date |-> <<>>, _comment |-> <<>>, _copyright |-> <<>>,
     _samplePos |-> 0, _sampleLen |-> 0,
     _presets |-> <<>>, _instruments |-> <<>>, _samples |-> <<>>,
     _pZones |-> <<>>, _iZones |-> <<>>]

\* SoundFont::read() on an opened file: st is "true" or "false" (the value
\* returned) or "crash" (read() did not return).
\* What read() makes of the end of a part r of its try block: a caught
\* exception is false, an uncaught one ends the process.
readResult(r) ==
    [st |-> CASE r.st = "throw" -> "false" [] r.st = "crash" -> "crash" [] OTHER -> "true",
     o |-> r.o]

\* read() after the chunk walk w: the sample data of every sample.
readSamples(w, file) ==
    IF w.st # "ok" THEN readResult(w)
    ELSE readResult(readAllSampleData(w.o, file.items, 1))

read(o, file) ==
    IF file.riff # "RIFF" \/ file.form # "sfbk" THEN [st |-> "false", o |-> o]
    ELSE readSamples(readLists(o, file.items, 1, TRUE, Sub32(file.riffLen, 4), NewTrace), file)

\* ------------------------------------------------------------------------
\* The writer.  Each write helper yields the item it writes: its fourcc, the
\* length it declares with writeDword and the body it writes after it.
\* ------------------------------------------------------------------------

Chunk(id, len, body) == [id |-> id, len |-> len, body |-> body]

\* SoundFont::writeIfil(): the major version the object holds afterwards.
ifilMajor(major, format) ==
    IF format = "SF4Format" THEN 4
    ELSE IF format = "SF3Format" THEN 3
    ELSE major

\* SoundFont::writeIfil(): the chunk, for the version the object holds.
writeIfil(version) ==
    Chunk("ifil", 4,
          <<version.major % 256, (version.major \div 256) % 256,
            version.minor % 256, (version.minor \div 256) % 256>>)

\* writeStringSection as it would be if it declared the length before
\* padding.
writeStringSectionUnpadded(fourcc, string) ==
    LET nn == Len(string) + 1
        n == ((nn + 1) \div 2) * 2
    IN  Chunk(fourcc, nn, string \o <<0>> \o (IF n - nn # 0 THEN <<0>> ELSE <<>>))

\* SoundFont::writeStringSection(fourcc, string).
writeStringSection(fourcc, string) ==
    LET nn == Len(string) + 1
        n == ((nn + 1) \div 2) * 2
    IN  Chunk(fourcc, n, string \o <<0>> \o (IF n - nn # 0 THEN <<0>> ELSE <<>>))

\* The text sections write() emits, in its order, for the non-empty strings.
InfoFields ==
    << <<"INAM", "_name">>, <<"isng", "_engine">>, <<"IPRD", "_product">>,
       <<"IENG", "_creator">>, <<"ISFT", "_tools">>, <<"ICRD", "_date">>,
       <<"ICMT", "_comment">>, <<"ICOP", "_copyright">> >>

RECURSIVE writeInfoStrings(_, _)
writeInfoStrings(o, i) ==
    IF i > Len(InfoFields) THEN <<>>
    ELSE (IF o[InfoFields[i][2]] # <<>>
          THEN <<writeStringSection(InfoFields[i][1], o[InfoFields[i][2]])>>
          ELSE <<>>) \o writeInfoStrings(o, i + 1)

\* The warning write() appends to _comment: "\n\nCAUTION" and the rest of
\* the sentence, kept here by its first nine characters.
CautionText == <<10, 10, 67, 65, 85, 84, 73, 79, 78>>

\* SoundFont::writePreset(zoneIdx, preset).
writePreset(zoneIdx, preset) ==
    [name |-> writeString(preset.name, NameLen),
     preset |-> ToWord(preset.preset),
     bank |-> ToWord(preset.bank),
     presetBagNdx |-> ToWord(zoneIdx),
     library |-> preset.library,
     genre |-> preset.genre,
     morphology |-> preset.morphology]

\* The running zone index before the i-th of a sequence of presets or
\* instruments.
RECURSIVE ZoneIdx(_, _)
ZoneIdx(owners, i) ==
    IF i <= 1 THEN 0 ELSE ZoneIdx(owners, i - 1) + Len(owners[i - 1].zones)

\* SoundFont::writePhdr().
writePhdr(o) ==
    LET n == Len(o._presets)
    IN  Chunk("phdr", (n + 1) * 38,
              [i \in 1..n |-> writePreset(ZoneIdx(o._presets, i), o._presets[i])]
              \o <<writePreset(ZoneIdx(o._presets, n + 1), NewPreset)>>)

\* The running generator and modulator indices before the i-th zone.
RECURSIVE GenIdx(_, _)
GenIdx(zones, i) ==
    IF i <= 1 THEN 0 ELSE GenIdx(zones, i - 1) + RunLen(zones[i - 1].generators)

RECURSIVE ModIdx(_, _)
ModIdx(zones, i) ==
    IF i <= 1 THEN 0 ELSE ModIdx(zones, i - 1) + Len(zones[i - 1].modulators)

\* SoundFont::writeBag(fourcc, zones).
writeBag(fourcc, zones) ==
    LET n == Len(zones)
    IN  Chunk(fourcc, (n + 1) * 4,
              [i \in 1..(n + 1) |-> [gen |-> ToWord(GenIdx(zones, i)),
                                     mod |-> ToWord(ModIdx(zones, i))]])

\* SoundFont::writeModulator(m).
writeModulator(m) ==
    [src |-> ToWord(m.src), dst |-> ToWord(m.dst), amount |-> ToWord(m.amount),
     amtSrc |-> ToWord(m.amtSrc), transform |-> ToWord(m.transform)]

RECURSIVE AllModulators(_)
AllModulators(zones) ==
    IF zones = <<>> THEN <<>>
    ELSE Head(zones).modulators \o AllModulators(Tail(zones))

\* writeMod as it would be if the declared size left out the terminator.
writeModNoTerminatorSize(fourcc, zones) ==
    LET all == AllModulators(zones)
        n == Len(all)
    IN  Chunk(fourcc, n * 10,
              [i \in 1..n |-> writeModulator(all[i])] \o <<writeModulator(ZeroModulator)>>)

\* SoundFont::writeMod(fourcc, zones).
writeMod(fourcc, zones) ==
    LET all == AllModulators(zones)
        n == Len(all)
    IN  Chunk(fourcc, (n + 1) * 10,
              [i \in 1..n |-> writeModulator(all[i])] \o <<writeModulator(ZeroModulator)>>)

\* SoundFont::writeGenerator(g): the record [gen, amount].
writeGenerator(g) ==
    IF g.gen = Gen_KeyRange \/ g.gen = Gen_VelRange
    THEN [gen |-> ToWord(g.gen), amount |-> (g.amount.lo % 256) + 256 * (g.amount.hi % 256)]
    ELSE [gen |-> ToWord(g.gen), amount |-> ToWord(g.amount.lo + 256 * g.amount.hi)]

RECURSIVE AllGenerators(_)
AllGenerators(zones) ==
    IF zones = <<>> THEN <<>>
    ELSE RunCat(Head(zones).generators, AllGenerators(Tail(zones)))

\* SoundFont::writeGen(fourcc, zones).
writeGen(fourcc, zones) ==
    LET all == AllGenerators(zones)
        n == RunLen(all)
        recs == [i \in 1..Len(all) |-> [n |-> all[i].n, v |-> writeGenerator(all[i].v)]]
    IN  Chunk(fourcc, (n + 1) * 4, RunCat(recs, <<[n |-> 1, v |-> writeGenerator(ZeroGenerator)]>>))

\* SoundFont::writeInstrument(zoneIdx, instrument).
writeInstrument(zoneIdx, instrument) ==
    [name |-> writeString(instrument.name, NameLen), instBagNdx |-> ToWord(zoneIdx)]

\* SoundFont::writeInst().
writeInst(o) ==
    LET n == Len(o._instruments)
    IN  Chunk("inst", (n + 1) * 22,
              [i \in 1..n |-> writeInstrument(ZoneIdx(o._instruments, i), o._instruments[i])]
              \o <<writeInstrument(ZoneIdx(o._instruments, n + 1), NewInstrument)>>)

\* SoundFont::writeShdrEach(s).
writeShdrEach(s) ==
    [name |-> writeString(s.name, NameLen),
     start |-> s.start, end |-> s.end,
     loopstart |-> s.loopstart, loopend |-> s.loopend,
     samplerate |-> s.samplerate,
     origpitch |-> s.origpitch % 256,
     pitchadj |-> s.pitchadj % 256,
     sampleLink |-> ToWord(s.sampleLink),
     sampletype |-> ToWord(s.sampletype)]

\* SoundFont::writeShdr().
writeShdr(o) ==
    Chunk("shdr", 46 * (Len(o._samples) + 1),
          [i \in 1..Len(o._samples) |-> writeShdrEach(o._samples[i])]
          \o <<writeShdrEach(NewSample)>>)

\* SoundFont::writeShdXEach(m).
writeShdXEach(m) ==
    [name |-> writeString(m.name, NameLen), samples |-> m.samples,
     loopstart |-> m.loopstart, loopend |-> m.loopend]

\* writeShdX as it would be if it skipped the samples without meta instead
\* of giving up the chunk.
writeShdXSkipping(o) ==
    LET have == SelectSeq(o._samples, LAMBDA x : x.meta # <<>>)
    IN  <<Chunk("shdX", SampleMetaSize * (Len(have) + 1),
                [i \in 1..Len(have) |-> writeShdXEach(have[i].meta[1])]
                \o <<writeShdXEach(NewSampleMeta)>>)>>

\* SoundFont::writeShdX(): nothing at all when a sample has no meta.
writeShdX(o) ==
    IF \E i \in 1..Len(o._samples) : o._samples[i].meta = <<>> THEN <<>>
    ELSE <<Chunk("shdX", SampleMetaSize * (Len(o._samples) + 1),
                 [i \in 1..Len(o._samples) |-> writeShdXEach(o._samples[i].meta[1])]
                 \o <<writeShdXEach(NewSampleMeta)>>)>>

\* The codec library's writer: the stream written for one sample, as the
\* bytes of the smpl chunk.  size is the number of bytes of the stream and
\* pcm the samples it decodes to; both are the library's choice.
Stream(codec, size, pcm) ==
    <<[codec |-> codec, size |-> size, pcm |-> pcm]>>
    \o [j \in 1..(size - 1) |-> [codec |-> "cont", size |-> 0, pcm |-> <<>>]]

\* smplOffsets as it would be if `end` were set from `written` alone.
smplOffsetsEndIsWritten(s, format, offsetFromChunk, written) ==
    IF format = "SF2Format"
    THEN LET start == offsetFromChunk \div WordBytes
         IN  [s EXCEPT !.sampletype = setCompressionType(@, "Raw"),
                       !.start = start,
                       !.end = written \div WordBytes,
                       !.loopstart = Add32(@, start),
                       !.loopend = Add32(@, start)]
    ELSE [s EXCEPT !.sampletype = setCompressionType(@, IF format = "SF3Format"
                                                        THEN "Vorbis" ELSE "Flac"),
                   !.start = offsetFromChunk,
                   !.end = written]

\* smplOffsets as it would be if the loop points were made absolute for
\* every target format.
smplOffsetsLoopsAbsolute(s, format, offsetFromChunk, written) ==
    LET start == IF format = "SF2Format" THEN offsetFromChunk \div WordBytes
                 ELSE offsetFromChunk
        end == IF format = "SF2Format" THEN (offsetFromChunk + written) \div WordBytes
               ELSE offsetFromChunk + written
    IN  [s EXCEPT !.sampletype = setCompressionType(@, CASE format = "SF2Format" -> "Raw"
                                                         [] format = "SF3Format" -> "Vorbis"
                                                         [] OTHER -> "Flac"),
                  !.start = start,
                  !.end = end,
                  !.loopstart = Add32(@, start),
                  !.loopend = Add32(@, start)]

\* smplOffsets as it would be if, for target SF2, only the loop start were
\* made absolute.
smplOffsetsLoopEndKept(s, format, offsetFromChunk, written) ==
    IF format = "SF2Format"
    THEN LET start == offsetFromChunk \div WordBytes
         IN  [s EXCEPT !.sampletype = setCompressionType(@, "Raw"),
                       !.start = start,
                       !.end = (offsetFromChunk + written) \div WordBytes,
                       !.loopstart = Add32(@, start)]
    ELSE [s EXCEPT !.sampletype = setCompressionType(@, IF format = "SF3Format"
                                                        THEN "Vorbis" ELSE "Flac"),
                   !.start = offsetFromChunk,
                   !.end = offsetFromChunk + written]

\* smplOffsets as it would be if, for target SF2, the loop points were
\* moved by the distance between the new start and the one the sample had.
smplOffsetsLoopsRebased(s, format, offsetFromChunk, written) ==
    IF format = "SF2Format"
    THEN LET start == offsetFromChunk \div WordBytes
         IN  [s EXCEPT !.sampletype = setCompressionType(@, "Raw"),
                       !.start = start,
                       !.end = (offsetFromChunk + written) \div WordBytes,
                       !.loopstart = Add32(@, Sub32(start, s.start)),
                       !.loopend = Add32(@, Sub32(start, s.start))]
    ELSE [s EXCEPT !.sampletype = setCompressionType(@, IF format = "SF3Format"
                                                        THEN "Vorbis" ELSE "Flac"),
                   !.start = offsetFromChunk,
                   !.end = offsetFromChunk + written]

\* The in-memory fields writeSmpl gives a sample written at byte offset
\* offsetFromChunk as `written` bytes.
smplOffsets(s, format, offsetFromChunk, written) ==
    IF format = "SF2Format"
    THEN LET start == offsetFromChunk \div WordBytes
         IN  [s EXCEPT !.sampletype = setCompressionType(@, "Raw"),
                       !.start = start,
                       !.end = (offsetFromChunk + written) \div WordBytes,
                       !.loopstart = Add32(@, start),
                       !.loopend = Add32(@, start)]
    ELSE [s EXCEPT !.sampletype = setCompressionType(@, IF format = "SF3Format"
                                                        THEN "Vorbis" ELSE "Flac"),
                   !.start = offsetFromChunk,
                   !.end = offsetFromChunk + written]

\* The loop of writeSmpl from sample i on: the samples as rewritten and the
\* cells written so far.  enc[i] is what the codec makes of sample i.
RECURSIVE writeSmplLoop(_, _, _, _, _, _)
writeSmplLoop(samples, format, enc, i, offsetFromChunk, cells) ==
    IF i > Len(samples) THEN [samples |-> samples, cells |-> cells]
    ELSE
      LET s == samples[i]
          data == IF s.sampleData = <<>> THEN <<>> ELSE s.sampleData[1]
          out == CASE format = "SF2Format" -> data
                   [] format = "SF3Format" -> Stream("vorbis", enc[i].size, enc[i].pcm)
                   [] format = "SF4Format" -> Stream("flac", enc[i].size, data)
          written == IF format = "SF2Format" THEN numSamples(s) * WordBytes ELSE Len(out)
      IN  writeSmplLoop([samples EXCEPT ![i] = smplOffsets(s, format, offsetFromChunk, written)],
                        format, enc, i + 1, offsetFromChunk + written, cells \o out)

\* SoundFont::writeSmpl(quality): the chunk and the rewritten samples.
writeSmpl(samples, format, enc) ==
    LET r == writeSmplLoop(samples, format, enc, 1, 0, <<>>)
        body == [unit |-> IF format = "SF2Format" THEN "pcm" ELSE "bytes", cells |-> r.cells]
    IN  [samples |-> r.samples,
         chunk |-> Chunk("smpl", BodyBytes(Chunk("smpl", 0, body)), body)]

\* What write() back-patches into a LIST's length field: the bytes written
\* after the field.
RECURSIVE ChunksBytes(_)
ChunksBytes(chunks) ==
    IF chunks = <<>> THEN 0 ELSE 8 + BodyBytes(Head(chunks)) + ChunksBytes(Tail(chunks))

List(type, chunks) == <<Chunk("LIST", 4 + ChunksBytes(chunks), type)>> \o chunks

\* SoundFont::write(filename, format, quality) when no stream write fails:
\* the object afterwards and the file written.  enc is what the codec makes
\* of each sample; uninit is the content of _version when no ifil chunk
\* has set it.
\* writeRiff as it would be if the length written back were the size of
\* the whole file.
writeRiffSizeOfFile(o, items) ==
    [o |-> o,
     file |-> [riff |-> "RIFF", riffLen |-> 12 + ChunksBytes(items),
               form |-> "sfbk", items |-> items]]

\* The file write() leaves once all three LISTs are written and the RIFF
\* length is back-patched.
writeRiff(o, items) ==
    [o |-> o,
     file |-> [riff |-> "RIFF", riffLen |-> 4 + ChunksBytes(items),
               form |-> "sfbk", items |-> items]]

\* write() from the pdta LIST on; o holds what writeIfil and writeSmpl left.
writePdta(o, format, before) ==
    writeRiff(o, before
                 \o List("pdta",
                         <<writePhdr(o),
                           writeBag("pbag", o._pZones),
                           writeMod("pmod", o._pZones),
                           writeGen("pgen", o._pZones),
                           writeInst(o),
                           writeBag("ibag", o._iZones),
                           writeMod("imod", o._iZones),
                           writeGen("igen", o._iZones),
                           writeShdr(o)>>
                         \o (IF format # "SF2Format" THEN writeShdX(o) ELSE <<>>)))

\* write() from the sdta LIST on; smpl is what writeSmpl did.
writeSdta(o, format, smpl, before) ==
    writePdta([o EXCEPT !._samples = smpl.samples], format,
              before \o List("sdta", <<smpl.chunk>>))

\* write() from the INFO LIST on, version being what writeIfil leaves in
\* _version.
writeInfo(o, format, enc, version) ==
    writeSdta([o EXCEPT !._version = <<version>>], format,
              writeSmpl(o._samples, format, enc),
              List("INFO", <<writeIfil(version)>> \o writeInfoStrings(o, 1)))

\* write as it would be if the warning were added for every compressed
\* source written as SF2.
writeCautionWhenExpanding(o, format, enc, uninit) ==
    writeInfo([o EXCEPT !._fileFormatOut = format,
                        !._comment = IF o._fileFormatIn # "SF2Format" /\ format = "SF2Format"
                                     THEN @ \o CautionText ELSE @],
              format, enc,
              [major |-> ifilMajor(IF o._version = <<>> THEN uninit.major ELSE o._version[1].major,
                                   format),
               minor |-> IF o._version = <<>> THEN uninit.minor ELSE o._version[1].minor])

write(o, format, enc, uninit) ==
    writeInfo([o EXCEPT !._fileFormatOut = format,
                        !._comment = IF o._fileFormatIn = "SF3Format" /\ format # o._fileFormatIn
                                     THEN @ \o CautionText ELSE @],
              format, enc,
              [major |-> ifilMajor(IF o._version = <<>> THEN uninit.major ELSE o._version[1].major,
                                   format),
               minor |-> IF o._version = <<>> THEN uninit.minor ELSE o._version[1].minor])

\* write() when a write on the output stream fails after k items of the
\* file were written whole: the items written, the length of the LIST then
\* open and of the RIFF still 0, as nothing was back-patched.
writeFailing(file, k) ==
    [riff |-> "RIFF", riffLen |-> 0, form |-> "sfbk",
     items |-> [i \in 1..k |->
                  IF file.items[i].id = "LIST" /\ \A j \in (i + 1)..k : file.items[j].id # "LIST"
                  THEN [file.items[i] EXCEPT !.len = 0]
                  ELSE file.items[i]]]

\* What a failing write() may leave of the file a successful one writes.
failedWrites(file) == {writeFailing(file, k) : k \in 0..(Len(file.items) - 1)}

\* ------------------------------------------------------------------------
\* Input files.  A file is built from a description d: the ifil version, the
\* INFO text chunks, the samples (PCM data, the cells left unused before it,
\* loop points relative to the sample start, type bits, the size of its
\* compressed stream, the shdX record it gets), the presets and instruments
\* (each a name and its zones, a zone being its pgen/igen records and its
\* pmod/imod records), the names of the terminator records, how often the
\* pbag chunk is stored, and the number of shdX records (-1: no shdX
\* chunk).  Declared lengths are those of the bodies.
\* ------------------------------------------------------------------------

Name(str) == str \o Zeros(NameLen - Len(str))

RECURSIVE Flatten(_)
Flatten(ss) == IF ss = <<>> THEN <<>> ELSE Head(ss) \o Flatten(Tail(ss))

RECURSIVE Repeat(_, _)
Repeat(s, k) == IF k <= 0 THEN <<>> ELSE s \o Repeat(s, k - 1)

Framed(id, body) == Chunk(id, BodyBytes(Chunk(id, 0, body)), body)

\* The cells one sample takes in smpl, and the offset unit, per source format.
SampleCells(d, sd) ==
    IF d.major = 3 THEN Stream("vorbis", sd.size, sd.data)
    ELSE IF d.major = 4 THEN Stream("flac", sd.size, sd.data)
    ELSE Zeros(sd.gap) \o sd.data

\* The offset in smpl of the cells of sample i.
RECURSIVE CellsBefore(_, _)
CellsBefore(d, i) ==
    IF i <= 1 THEN 0
    ELSE CellsBefore(d, i - 1) + Len(SampleCells(d, d.samples[i - 1]))

ShdrRecord(d, i) ==
    LET sd == d.samples[i]
        first == CellsBefore(d, i) + (IF d.major \in {3, 4} THEN 0 ELSE sd.gap)
        last == CellsBefore(d, i) + Len(SampleCells(d, sd))
    IN  [name |-> Name(sd.name),
         start |-> first,
         end |-> IF sd.reversed THEN Sub32(first, 1) ELSE last,
         loopstart |-> IF d.major \in {3, 4} THEN sd.ls ELSE Add32(first, sd.ls),
         loopend |-> IF d.major \in {3, 4} THEN sd.le ELSE Add32(first, sd.le),
         samplerate |-> 44100, origpitch |-> 60, pitchadj |-> 255, sampleLink |-> 0,
         sampletype |-> sd.type]

ShdXRecord(d, i) ==
    LET sd == d.samples[i]
    IN  [name |-> Name(sd.name),
         samples |-> IF sd.meta = "bad" THEN Len(sd.data) + 1 ELSE Len(sd.data),
         loopstart |-> sd.ls, loopend |-> sd.le]

ZeroShdr ==
    [name |-> Zeros(NameLen), start |-> 0, end |-> 0, loopstart |-> 0, loopend |-> 0,
     samplerate |-> 0, origpitch |-> 0, pitchadj |-> 0, sampleLink |-> 0, sampletype |-> 0]

\* The zones of all owners in file order.
AllZones(owners) == Flatten([i \in 1..Len(owners) |-> owners[i].zones])

\* pbag/ibag records for zones: running sums of records per zone.
RECURSIVE BagRecords(_, _, _, _)
BagRecords(zones, i, g, m) ==
    IF i > Len(zones) THEN <<[gen |-> g, mod |-> m]>>
    ELSE <<[gen |-> g, mod |-> m]>>
         \o BagRecords(zones, i + 1, g + RunLen(zones[i].gens), m + Len(zones[i].mods))

MakeFile(d) ==
    LET np == Len(d.presets)
        ni == Len(d.instruments)
        ns == Len(d.samples)
        pz == AllZones(d.presets)
        iz == AllZones(d.instruments)
        info == List("INFO", <<Framed("ifil", <<d.major, 0, 1, 0>>)>> \o d.info)
        sdta == List("sdta",
                     <<Framed("smpl", [unit |-> IF d.major \in {3, 4} THEN "bytes" ELSE "pcm",
                                       cells |-> Flatten([i \in 1..ns |-> SampleCells(d, d.samples[i])])])>>)
        phdr == [i \in 1..np |->
                    [name |-> Name(d.presets[i].name), preset |-> i - 1, bank |-> 128,
                     presetBagNdx |-> d.firstNdx + ZoneIdx(d.presets, i),
                     library |-> 0, genre |-> 0, morphology |-> 0 - 1]]
                \o <<[name |-> Name(d.term), preset |-> 0, bank |-> 0,
                      presetBagNdx |-> d.firstNdx + ZoneIdx(d.presets, np + 1),
                      library |-> 0, genre |-> 0, morphology |-> 0]>>
        inst == [i \in 1..ni |->
                    [name |-> Name(d.instruments[i].name),
                     instBagNdx |-> ZoneIdx(d.instruments, i)]]
                \o <<[name |-> Name(d.term), instBagNdx |-> ZoneIdx(d.instruments, ni + 1)]>>
        zeroGen == [gen |-> 0, amount |-> 0]
        zeroMod == [src |-> 0, dst |-> 0, amount |-> 0, amtSrc |-> 0, transform |-> 0]
        gens(zones) == Flatten([i \in 1..Len(zones) |-> Repeat(zones[i].gens, d.pbags)])
        pdta == List("pdta",
                     <<Framed("phdr", phdr)>>
                     \o Repeat(<<Framed("pbag", BagRecords(pz, 1, 0, 0))>>, d.pbags)
                     \o <<Framed("pmod", Flatten([i \in 1..Len(pz) |-> Repeat(pz[i].mods, d.pbags)])
                                          \o <<zeroMod>>),
                          Framed("pgen", RunCat(RunCat(<<>>, gens(pz)), <<[n |-> 1, v |-> zeroGen]>>)),
                          Framed("inst", inst),
                          Framed("ibag", BagRecords(iz, 1, 0, 0)),
                          Framed("imod", Flatten([i \in 1..Len(iz) |-> iz[i].mods]) \o <<zeroMod>>),
                          Framed("igen", RunCat(RunCat(<<>>, Flatten([i \in 1..Len(iz) |-> iz[i].gens])),
                                                <<[n |-> 1, v |-> zeroGen]>>)),
                          Framed("shdr", [i \in 1..ns |-> ShdrRecord(d, i)]
                                         \o <<[ZeroShdr EXCEPT !.name = Name(d.term)]>>)>>
                     \o (IF d.shdX < 0 THEN <<>>
                         ELSE <<Framed("shdX",
                                       [i \in 1..d.shdX |-> ShdXRecord(d, i)]
                                       \o <<[name |-> Zeros(NameLen), samples |-> 0,
                                             loopstart |-> 0, loopend |-> 0]>>)>>))
        items == info \o sdta \o pdta
    IN  [riff |-> "RIFF", riffLen |-> 4 + ChunksBytes(items), form |-> "sfbk", items |-> items]

\* ------------------------------------------------------------------------
\* The process: main() of sf2convert.cpp run on the files of a disk.
\* ------------------------------------------------------------------------

VARIABLES
    commandLine,  \* main's StringArray: the arguments not yet consumed
    opts,         \* main's locals dump, convert, format, quality, any
    pc,           \* where main is: "args", "dump", "convert", "exit", or "abort"
                  \* (the process was ended abnormally)
    status,       \* <<>>, or <<the exit status>> once main has returned or exited
    disk,         \* in: the file named by infile; out: <<>> or <<the file written>>;
                  \* prev: <<>> or <<the input of the previous run>>; full: whether
                  \* a write on the output stream has failed
    sf,           \* the SoundFont object
    dumped,       \* whether dumpPresets() has printed
    run,          \* the number of this run of the program
    loaded,       \* history: <<the object as read() left it when it returned true>>
    prevLoaded    \* history: loaded of the previous run

vars == <<commandLine, opts, pc, status, disk, sf, dumped, run, loaded, prevLoaded>>

\* The number of successive runs of the program, each on the output of the
\* one before.
MaxRuns == 2

\* The largest stream the codec writes for one sample, in bytes.
MaxEncBytes == 2

\* A lossy decode of pcm that is not pcm.
Perturb(pcm) == [j \in 1..Len(pcm) |-> IF pcm[j] < 32767 THEN pcm[j] + 1 ELSE pcm[j] - 1]

\* What the codec may make of the samples: for each, the size of the stream
\* and (Vorbis) the samples it will decode to.
EncChoices(samples, format) ==
    LET data(i) == IF samples[i].sampleData = <<>> THEN <<>> ELSE samples[i].sampleData[1]
        sizes == IF format = "SF2Format" THEN {0} ELSE 1..MaxEncBytes
        pcms(i) == IF format = "SF3Format" THEN {data(i), Perturb(data(i))} ELSE {data(i)}
        all == UNION {[size : sizes, pcm : pcms(i)] : i \in 1..Len(samples)}
    IN  {e \in [1..Len(samples) -> all] :
            \A i \in 1..Len(samples) : e[i].pcm \in pcms(i)}

\* What _version may hold when no ifil chunk was read.
UninitVersions == {[major |-> 0, minor |-> 0], [major |-> 770, minor |-> 3]}

\* String::indexOfChar(c) > 0 on a token, a sequence of characters.
HasFlag(token, c) ==
    \E i \in 2..Len(token) : token[i] = c /\ \A j \in 1..(i - 1) : token[j] # c

\* The body of main's option loop on one token that starts with "-".
parseToken(o, token) ==
    LET o1 == IF HasFlag(token, "x")
              THEN [o EXCEPT !.convert = TRUE, !.format = "SF2Format", !.any = TRUE] ELSE o
        o2 == IF HasFlag(token, "z")
              THEN [o1 EXCEPT !.convert = TRUE, !.format = "SF3Format", !.any = TRUE] ELSE o1
        o3 == IF HasFlag(token, "o")
              THEN [o2 EXCEPT !.convert = TRUE, !.format = "SF3Format", !.any = TRUE] ELSE o2
        o4 == IF HasFlag(token, "f")
              THEN [o3 EXCEPT !.convert = TRUE, !.format = "SF4Format", !.any = TRUE] ELSE o3
        o5 == IF HasFlag(token, "d") THEN [o4 EXCEPT !.dump = TRUE, !.any = TRUE] ELSE o4
        o6 == IF HasFlag(token, "0") THEN [o5 EXCEPT !.quality = 0] ELSE o5
        o7 == IF HasFlag(token, "1") THEN [o6 EXCEPT !.quality = 1] ELSE o6
    IN  IF HasFlag(token, "2") THEN [o7 EXCEPT !.quality = 2] ELSE o7

\* main's locals before the option loop.
InitOpts == [dump |-> FALSE, convert |-> FALSE, format |-> "SF2Format", quality |-> 2, any |-> FALSE]

\* ------------------------------------------------------------------------
\* The files the program is run on.
\* ------------------------------------------------------------------------

Run(n, v) == [n |-> n, v |-> v]

SampleD(data, gap, ls, le) ==
    [name |-> <<115>>, data |-> data, gap |-> gap, size |-> 2, ls |-> ls, le |-> le,
     type |-> Mono, meta |-> "good", reversed |-> FALSE]

ZoneD(gens, mods) == [gens |-> gens, mods |-> mods]

ModD == [src |-> 2, dst |-> 8, amount |-> 65535, amtSrc |-> 0, transform |-> 0]

\* One preset with one zone naming the instrument, one instrument with one
\* zone naming the sample, one looped sample of three frames; SoundFont 2.
BaseDesc ==
    [major |-> 2, info |-> <<>>,
     samples |-> <<SampleD(<<5, 0 - 7, 9>>, 0, 1, 2)>>,
     presets |-> <<[name |-> <<112>>,
                    zones |-> <<ZoneD(<<Run(1, [gen |-> Gen_Instrument, amount |-> 0])>>, <<>>)>>]>>,
     instruments |-> <<[name |-> <<105>>,
                        zones |-> <<ZoneD(<<Run(1, [gen |-> 53, amount |-> 0])>>, <<>>)>>]>>,
     term |-> <<>>, firstNdx |-> 0, pbags |-> 1, shdX |-> 0 - 1]

Compressed(sd, bit) == [sd EXCEPT !.type = Mono + bit]

TwoSamples(gap) == <<SampleD(<<5, 0 - 7, 9>>, 0, 1, 2), SampleD(<<4, 4>>, gap, 0, 2)>>

\* Descriptions that differ from BaseDesc in one respect each.
SampleDescs ==
    {[BaseDesc EXCEPT !.samples = ss] :
        ss \in {<<>>, TwoSamples(0), TwoSamples(1),
                <<SampleD(<<5, 0 - 7, 9>>, 0, 2, 1)>>,      \* loop start after loop end
                <<SampleD(<<5, 0 - 7, 9>>, 0, 1, 4)>>,      \* loop end after the data
                <<SampleD(<<5, 0 - 7, 9>>, 1, 0 - 1, 2)>>,  \* loop start before the data
                <<[SampleD(<<5, 0 - 7, 9>>, 1, 0, 0) EXCEPT !.reversed = TRUE]>>,
                \* a left ROM sample that carries both compression bits
                <<[SampleD(<<5, 0 - 7, 9>>, 0, 1, 2) EXCEPT !.type = 32768 + 4 + TypeVorbis + TypeFlac]>>}}

CompressedDescs ==
    {[BaseDesc EXCEPT !.major = 3, !.shdX = k,
                      !.samples = [i \in 1..2 |-> Compressed(TwoSamples(0)[i], TypeVorbis)]] :
        k \in {0 - 1, 1, 2}}
    \cup {[BaseDesc EXCEPT !.major = 3, !.shdX = 1,
                           !.samples = <<[Compressed(@[1], TypeVorbis) EXCEPT !.meta = "bad"]>>]}
    \cup {[BaseDesc EXCEPT !.major = 4, !.shdX = k,
                           !.samples = <<Compressed(@[1], TypeFlac)>>] : k \in {0 - 1, 1}}
    \cup {[BaseDesc EXCEPT !.major = m, !.shdX = 1,
                           !.info = <<Framed("ICMT", <<99, 0>>)>>,
                           !.samples = <<Compressed(@[1], IF m = 3 THEN TypeVorbis ELSE TypeFlac)>>] :
            m \in {3, 4}}

InfoDescs ==
    {[BaseDesc EXCEPT !.info = i] :
        i \in {<<Framed("INAM", <<110, 0>>)>>,
               <<Framed("ICMT", <<99, 0>>), Framed("INAM", <<110, 0>>)>>,
               <<Framed("ICMT", <<99, 99, 0>>)>>,
               <<Framed("irom", <<114, 0>>)>>,
               <<Framed("INAM", <<110, 0>>), Framed("iver", <<2, 0, 1, 0>>)>>}}
    \cup {[BaseDesc EXCEPT !.term = <<69, 79, 80>>]}

ZoneDescs ==
    {[BaseDesc EXCEPT !.presets = ps] :
        ps \in {<<[name |-> <<112>>, zones |-> <<>>]>>,
                <<[name |-> <<112>>,
                   zones |-> <<ZoneD(<<Run(1, [gen |-> Gen_KeyRange, amount |-> 32512]),
                                       Run(1, [gen |-> Gen_Instrument, amount |-> 0])>>,
                                     <<ModD>>),
                               ZoneD(<<>>, <<>>)>>],
                  [name |-> <<113>>,
                   zones |-> <<ZoneD(<<Run(2, [gen |-> 8, amount |-> 65000])>>, <<ModD, ModD>>)>>]>>}}
    \cup {[BaseDesc EXCEPT !.pbags = 2]}
    \cup {[BaseDesc EXCEPT !.pbags = 2,
                           !.presets = <<[name |-> <<112>>,
                                          zones |-> <<ZoneD(<<Run(30000, [gen |-> 8, amount |-> 1])>>, <<>>),
                                                      ZoneD(<<Run(5000, [gen |-> 9, amount |-> 2])>>, <<>>)>>]>>]}

Descs == {BaseDesc} \cup SampleDescs \cup CompressedDescs \cup InfoDescs \cup ZoneDescs

HasItem(file, id) == \E i \in 1..Len(file.items) : file.items[i].id = id

\* The first chunk of the file with that fourcc.
Item(file, id) ==
    file.items[CHOOSE i \in 1..Len(file.items) :
                  /\ file.items[i].id = id
                  /\ \A j \in 1..(i - 1) : file.items[j].id # id]

\* The file with the given field of the first two records of its first
\* chunk `id` exchanged.
Swapped(file, id, field) ==
    LET i == CHOOSE k \in 1..Len(file.items) :
                 /\ file.items[k].id = id
                 /\ \A j \in 1..(k - 1) : file.items[j].id # id
        body == file.items[i].body
    IN  [file EXCEPT !.items[i].body =
            [body EXCEPT ![1] = [body[1] EXCEPT ![field] = body[2][field]],
                         ![2] = [body[2] EXCEPT ![field] = body[1][field]]]]

\* The file with v as the given field of the first record of its first
\* chunk `id`.
WithFirst(file, id, field, v) ==
    LET i == CHOOSE k \in 1..Len(file.items) :
                 /\ file.items[k].id = id
                 /\ \A j \in 1..(k - 1) : file.items[j].id # id
    IN  [file EXCEPT !.items[i].body[1][field] = v]

\* A description whose first preset zone and first instrument zone each
\* have a modulator.
ModDesc ==
    [BaseDesc EXCEPT !.presets[1].zones[1].mods = <<ModD>>,
                     !.instruments[1].zones[1].mods = <<ModD>>]

\* Files in which an index of the second record is below that of the first.
DecreasingInputs ==
    {Swapped(MakeFile(BaseDesc), "phdr", "presetBagNdx"),
     Swapped(MakeFile(BaseDesc), "inst", "instBagNdx"),
     Swapped(MakeFile(BaseDesc), "pbag", "gen"),
     Swapped(MakeFile(BaseDesc), "ibag", "gen"),
     Swapped(MakeFile(ModDesc), "pbag", "mod"),
     Swapped(MakeFile(ModDesc), "ibag", "mod"),
     \* two presets without zones, the index of the first above the others
     WithFirst(MakeFile([BaseDesc EXCEPT
                            !.presets = <<[name |-> <<112>>, zones |-> <<>>],
                                          [name |-> <<113>>, zones |-> <<>>]>>]),
               "phdr", "presetBagNdx", 1)}

\* The file with len as the declared length of its item k.
WithLen(file, k, len) == [file EXCEPT !.items[k].len = len]

\* The file with the chunk stored after its item k, no length adjusted.
Inserted(file, k, chunk) ==
    [file EXCEPT !.items = SubSeq(@, 1, k) \o <<chunk>> \o SubSeq(@, k + 1, Len(@))]

\* Files whose INFO LIST or RIFF header declares a length other than that
\* of what it encloses.  In the last one the INFO LIST declares 8 bytes and
\* holds ifil and an empty inst chunk declaring 0xFFFFFFF0 bytes; the RIFF
\* length is the sum of what the three LISTs declare.
MisdeclaredInputs ==
    LET f == MakeFile(BaseDesc)
    IN  {WithLen(f, 1, f.items[1].len - 8),
         WithLen(f, 1, f.items[1].len + 4),
         [f EXCEPT !.riffLen = @ - 4],
         [f EXCEPT !.riffLen = @ + 4],
         [Inserted(WithLen(f, 1, f.items[1].len - 8), 2, Chunk("inst", 0 - 16, <<>>))
            EXCEPT !.riffLen = @ - 8]}

\* An SF3 file of one sample with its shdX chunk, then the same file with
\* another name in the shdX record, and with shdX stored before shdr.
ShdXInputs ==
    LET f == MakeFile([BaseDesc EXCEPT !.major = 3, !.shdX = 1,
                                       !.samples = <<Compressed(@[1], TypeVorbis)>>])
        k == Len(f.items) - 1
    IN  {f,
         WithFirst(f, "shdX", "name", Name(<<120>>)),
         [f EXCEPT !.items[k] = f.items[k + 1], !.items[k + 1] = f.items[k]]}

\* The file with its first chunk `id` taken out and stored, with the given
\* body, as the last chunk of the pdta LIST (the last LIST of the file); the
\* lengths of the chunk, of the LIST and of the RIFF are those of what they
\* hold.
MovedLast(file, id, body) ==
    LET i == CHOOSE k \in 1..Len(file.items) :
                 /\ file.items[k].id = id
                 /\ \A j \in 1..(k - 1) : file.items[j].id # id
        l == CHOOSE k \in 1..Len(file.items) :
                 /\ file.items[k].id = "LIST"
                 /\ file.items[k].body = "pdta"
        delta == BodyBytes(Chunk(id, 0, body)) - BodyBytes(file.items[i])
    IN  [file EXCEPT !.riffLen = @ + delta,
                     !.items = [SubSeq(@, 1, i - 1) \o SubSeq(@, i + 1, Len(@))
                                    \o <<Framed(id, body)>>
                                  EXCEPT ![l].len = @ + delta]]

\* Files whose pmod, pgen or igen chunk is the last of the file and holds
\* one record more or one record less than the zones ask for, and one in
\* which pmod is only moved.
WrongSizeInputs ==
    LET f == MakeFile(BaseDesc)
        g == MakeFile(ModDesc)
    IN  {MovedLast(f, "pmod", Item(f, "pmod").body),
         MovedLast(f, "pmod", Item(f, "pmod").body \o Item(f, "pmod").body),
         MovedLast(g, "pmod", Tail(Item(g, "pmod").body)),
         MovedLast(f, "pgen", RunDrop(Item(f, "pgen").body, 1)),
         MovedLast(f, "pgen", RunCat(Item(f, "pgen").body, <<[n |-> 1, v |-> [gen |-> 9, amount |-> 0]]>>)),
         MovedLast(f, "igen", RunCat(Item(f, "igen").body, <<[n |-> 1, v |-> [gen |-> 9, amount |-> 0]]>>))}

\* An SF2 file whose first sample ends two samples after the end of the
\* smpl chunk.
OutOfRangeInputs ==
    {WithFirst(MakeFile(BaseDesc), "shdr", "end",
               Item(MakeFile(BaseDesc), "shdr").body[1].end + 2)}

\* An SF2 file whose shdr chunk, the last of the file, declares two bytes
\* more than its two records take, as do the pdta LIST and the RIFF header.
OverlongInputs ==
    LET f == MakeFile(BaseDesc)
        l == CHOOSE k \in 1..Len(f.items) :
                 /\ f.items[k].id = "LIST"
                 /\ f.items[k].body = "pdta"
    IN  {[WithLen(WithLen(f, Len(f.items), f.items[Len(f.items)].len + 2),
                  l, f.items[l].len + 2)
            EXCEPT !.riffLen = @ + 2]}

Inputs ==
    {MakeFile(d) : d \in Descs \cup {ModDesc}}
    \cup DecreasingInputs \cup MisdeclaredInputs \cup ShdXInputs \cup WrongSizeInputs
    \cup OutOfRangeInputs \cup OverlongInputs

\* Command lines (argv without argv[0]): tokens are sequences of characters.
ArgVectors ==
    {<< <<"-", "x">>, <<"i">>, <<"o">> >>,
     << <<"-", "z", "o">>, <<"i">>, <<"o">> >>,
     << <<"-", "z", "o", "0">>, <<"i">>, <<"o">> >>,
     << <<"-", "z", "f", "1">>, <<"i">>, <<"o">> >>,
     << <<"-", "d">>, <<"i">>, <<"o">> >>,
     << <<"-", "d">>, <<"-", "x">>, <<"i">>, <<"o">> >>,
     << <<"i">>, <<"o">> >>,
     << <<"i">> >>,
     << <<"i">>, <<"o">>, <<"-", "x">> >>}

\* ------------------------------------------------------------------------
\* The steps of main().
\* ------------------------------------------------------------------------

Init ==
    /\ commandLine \in ArgVectors
    /\ opts = InitOpts
    /\ pc = "args"
    /\ status = <<>>
    /\ disk \in {[in |-> f, out |-> <<>>, prev |-> <<>>, full |-> FALSE] : f \in Inputs}
    /\ sf = NewSoundFont
    /\ dumped = FALSE
    /\ run = 1
    /\ loaded = <<>>
    /\ prevLoaded = <<>>

\* One pass of the option loop: a token that starts with "-" is applied and
\* removed; any other token is left where it is.
ParseToken ==
    /\ pc = "args"
    /\ Len(commandLine) > 2
    /\ LET token == commandLine[1]
       IN  IF token # <<>> /\ token[1] = "-"
           THEN /\ opts' = parseToken(opts, token)
                /\ commandLine' = Tail(commandLine)
           ELSE UNCHANGED <<opts, commandLine>>
    /\ UNCHANGED <<pc, status, disk, sf, dumped, run, loaded, prevLoaded>>

\* The check after the loop fails: usage() and exit(1).
Usage ==
    /\ pc = "args"
    /\ ~(Len(commandLine) > 2)
    /\ Len(commandLine) # 2 /\ ~opts.any
    /\ pc' = "exit"
    /\ status' = <<1>>
    /\ UNCHANGED <<commandLine, opts, disk, sf, dumped, run, loaded, prevLoaded>>

\* The check passes: the SoundFont is constructed and read() runs.
ReadFile ==
    /\ pc = "args"
    /\ ~(Len(commandLine) > 2)
    /\ ~(Len(commandLine) # 2 /\ ~opts.any)
    /\ LET r == read(NewSoundFont, disk.in)
       IN  \/ /\ r.st = "true"
              /\ sf' = r.o
              /\ loaded' = <<r.o>>
              /\ pc' = "dump"
              /\ UNCHANGED status
           \/ /\ r.st = "false"
              /\ sf' = r.o
              /\ pc' = "exit"
              /\ status' = <<3>>
              /\ UNCHANGED loaded
           \/ /\ r.st = "crash"
              /\ sf' = r.o
              /\ pc' = "abort"
              /\ UNCHANGED status
              /\ UNCHANGED loaded
    /\ UNCHANGED <<commandLine, opts, disk, dumped, run, prevLoaded>>

\* if (dump) sf.dumpPresets();
Dump ==
    /\ pc = "dump"
    /\ dumped' = opts.dump
    /\ pc' = "convert"
    /\ UNCHANGED <<commandLine, opts, status, disk, sf, run, loaded, prevLoaded>>

\* if (convert) sf.write(outFilename, format, quality); return 0;
\* Either every write on the output stream succeeds, or one of them fails
\* after k items: SoundFont::write(p, n) then throws a const char*, which
\* neither write() (it catches String) nor main catches, so the process is
\* ended by the uncaught exception and the object with it.
WriteFile ==
    /\ pc = "convert"
    /\ \/ /\ opts.convert
          /\ \E enc \in EncChoices(sf._samples, opts.format), uninit \in UninitVersions :
                LET w == write(sf, opts.format, enc, uninit)
                IN  /\ sf' = w.o
                    /\ disk' = [disk EXCEPT !.out = <<w.file>>]
          /\ pc' = "exit"
          /\ status' = <<0>>
       \/ /\ opts.convert
          /\ \E enc \in EncChoices(sf._samples, opts.format), uninit \in UninitVersions :
                \E f \in failedWrites(write(sf, opts.format, enc, uninit).file) :
                    disk' = [disk EXCEPT !.out = <<f>>, !.full = TRUE]
          /\ pc' = "abort"
          /\ UNCHANGED <<sf, status>>
       \/ /\ ~opts.convert
          /\ pc' = "exit"
          /\ status' = <<0>>
          /\ UNCHANGED <<sf, disk>>
    /\ UNCHANGED <<commandLine, opts, dumped, run, loaded, prevLoaded>>

\* The user runs the program again, on the file the last run wrote.
Rerun ==
    /\ pc = "exit"
    /\ status = <<0>>
    /\ disk.out # <<>>
    /\ run < MaxRuns
    /\ commandLine' \in ArgVectors
    /\ opts' = InitOpts
    /\ pc' = "args"
    /\ status' = <<>>
    /\ disk' = [in |-> disk.out[1], out |-> <<>>, prev |-> <<disk.in>>, full |-> FALSE]
    /\ sf' = NewSoundFont
    /\ dumped' = FALSE
    /\ run' = run + 1
    /\ prevLoaded' = loaded
    /\ loaded' = <<>>

Next == ParseToken \/ Usage \/ ReadFile \/ Dump \/ WriteFile \/ Rerun

Spec == Init /\ [][Next]_vars

\* The steps of one run of main().
Main == ParseToken \/ Usage \/ ReadFile \/ Dump \/ WriteFile

\* The runs of main() on every vector of at most MaxArgs arguments, each
\* an option that converts, an option that dumps, or a file name; the
\* input file is one read() accepts, one it refuses, or one it crashes on.
MaxArgs == 4

ArgTokens == {<<"-", "x">>, <<"-", "d", "1">>, <<"i">>}

AllArgVectors == UNION {[1..n -> ArgTokens] : n \in 0..MaxArgs}

ArgsInit ==
    /\ commandLine \in AllArgVectors
    /\ opts = InitOpts
    /\ pc = "args"
    /\ status = <<>>
    /\ disk \in {[in |-> f, out |-> <<>>, prev |-> <<>>, full |-> FALSE] :
                   f \in {MakeFile(BaseDesc),
                          [MakeFile(BaseDesc) EXCEPT !.riffLen = @ + 4],
                          MakeFile([BaseDesc EXCEPT !.samples =
                              <<[SampleD(<<5, 0 - 7, 9>>, 1, 0, 0) EXCEPT !.reversed = TRUE]>>])}}
    /\ sf = NewSoundFont
    /\ dumped = FALSE
    /\ run = 1
    /\ loaded = <<>>
    /\ prevLoaded = <<>>

\* A process that is in the option loop goes on running it.
ArgsSpec == ArgsInit /\ [][Main]_vars /\ WF_vars(ParseToken)

\* ------------------------------------------------------------------------
\* What the properties below look at.
\* ------------------------------------------------------------------------

\* This run has written its output file, whole.
Wrote == disk.out # <<>> /\ ~disk.full

OutFile == disk.out[1]

\* This run's read() has returned true.
ReadOk == loaded # <<>>

\* This run has called read(), whatever came of it.
ReadDone == pc \in {"dump", "convert", "abort"} \/ (pc = "exit" /\ status # <<1>>)

\* Two files hold the same bytes: the same items with the same declared
\* lengths and bodies, in the same order.
SameBytes(a, b) ==
    /\ a.riff = b.riff /\ a.riffLen = b.riffLen /\ a.form = b.form
    /\ Len(a.items) = Len(b.items)
    /\ \A i \in 1..Len(a.items) :
          /\ a.items[i].id = b.items[i].id
          /\ a.items[i].len = b.items[i].len
          /\ a.items[i].body = b.items[i].body

\* What structural preservation compares of a model.
OwnerZones(owner, zones) == [z \in 1..Len(owner.zones) |-> zones[owner.zones[z]]]

Structure(o) ==
    [presets |-> [i \in 1..Len(o._presets) |->
                    [name |-> o._presets[i].name, bank |-> o._presets[i].bank,
                     preset |-> o._presets[i].preset, library |-> o._presets[i].library,
                     genre |-> o._presets[i].genre, morphology |-> o._presets[i].morphology,
                     zones |-> OwnerZones(o._presets[i], o._pZones)]],
     instruments |-> [i \in 1..Len(o._instruments) |->
                        [name |-> o._instruments[i].name,
                         zones |-> OwnerZones(o._instruments[i], o._iZones)]],
     samples |-> [i \in 1..Len(o._samples) |->
                    [name |-> o._samples[i].name, samplerate |-> o._samples[i].samplerate,
                     origpitch |-> o._samples[i].origpitch, pitchadj |-> o._samples[i].pitchadj,
                     sampleLink |-> o._samples[i].sampleLink,
                     numSamples |-> numSamples(o._samples[i])]]]

\* The major version an ifil chunk stores.
StoredMajor(file) == Item(file, "ifil").body[1] + 256 * Item(file, "ifil").body[2]

\* ------------------------------------------------------------------------
\* Properties
\* ------------------------------------------------------------------------

\* C1: when an SF2 file that read() accepts is written back as SF2, the
\* file written holds the same bytes as the file read: the same INFO chunks
\* in the same order with the same declared lengths, the same smpl payload
\* and sample offsets, the same pdta tables.
C1_RoundTripIdentity ==
    (Wrote /\ ReadOk /\ loaded[1]._fileFormatIn = "SF2Format" /\ opts.format = "SF2Format")
        => SameBytes(OutFile, disk.in)

\* C2: reading a file that write() produced from an accepted input, in any
\* target format, succeeds and gives a model equal to the one the input
\* gave in its presets, instruments, zones, generators, modulators and
\* samples (names, numbers, sample counts).
C2_StructurePreserved ==
    (run > 1 /\ ReadDone)
        => (ReadOk /\ Structure(loaded[1]) = Structure(prevLoaded[1]))

\* C3: the ifil major version of every file written is 2 for target SF2, 3
\* for SF3 and 4 for SF4, whatever the input's was.
C3_IfilMajorByTarget ==
    Wrote => StoredMajor(OutFile) = CASE opts.format = "SF2Format" -> 2
                                      [] opts.format = "SF3Format" -> 3
                                      [] opts.format = "SF4Format" -> 4

\* The shdr records and the smpl cells of a file.
Shdr(file) == Item(file, "shdr").body
Smpl(file) == Item(file, "smpl").body.cells

\* The codec of a target format.
Codec(format) == IF format = "SF3Format" THEN "vorbis" ELSE "flac"

\* C4: after a write, the start and end stored in shdr tile the smpl chunk
\* in model order: the first start is 0, each later start is the previous
\* end, the last end is the end of the chunk, and the cells from start to
\* end are the sample's PCM (target SF2, counted in 16-bit units) or
\* exactly the stream the codec wrote for it (targets SF3 and SF4, counted
\* in bytes).
C4_SamplesTileSmpl ==
    Wrote =>
        LET recs == Shdr(OutFile)
            cells == Smpl(OutFile)
            n == Len(sf._samples)
        IN  /\ Len(recs) = n + 1
            /\ IF n = 0 THEN cells = <<>> ELSE recs[n].end = Len(cells)
            /\ \A i \in 1..n :
                  /\ recs[i].start = IF i = 1 THEN 0 ELSE recs[i - 1].end
                  /\ recs[i].start <= recs[i].end
                  /\ sf._samples[i].start = recs[i].start
                  /\ sf._samples[i].end = recs[i].end
                  /\ IF opts.format = "SF2Format"
                     THEN /\ recs[i].end - recs[i].start = Len(loaded[1]._samples[i].sampleData[1])
                          /\ SubSeq(cells, recs[i].start + 1, recs[i].end)
                                = loaded[1]._samples[i].sampleData[1]
                     ELSE Decodable(Codec(opts.format),
                                    SubSeq(cells, recs[i].start + 1, recs[i].end))

\* A compressed file of two samples has been written.
C4_Witness ==
    /\ Wrote
    /\ opts.format = "SF3Format"
    /\ Len(sf._samples) = 2
    /\ Shdr(OutFile)[2].start > 0

\* C5: the loop points the write after a read stores in shdr are, for
\* target SF2, the relative loop points the read left in memory plus the
\* sample's new start; for targets SF3 and SF4 they are those relative loop
\* points, which the write leaves unchanged in memory.
C5_LoopPointsWritten ==
    Wrote =>
        \A i \in 1..Len(loaded[1]._samples) :
            LET rec == Shdr(OutFile)[i]
                was == loaded[1]._samples[i]
            IN  IF opts.format = "SF2Format"
                THEN /\ rec.loopstart = Add32(was.loopstart, rec.start)
                     /\ rec.loopend = Add32(was.loopend, rec.start)
                ELSE /\ rec.loopstart = was.loopstart
                     /\ rec.loopend = was.loopend
                     /\ sf._samples[i].loopstart = was.loopstart
                     /\ sf._samples[i].loopend = was.loopend

\* An SF2 file has been written in which a looped sample does not start at 0.
C5_Witness ==
    /\ Wrote
    /\ opts.format = "SF2Format"
    /\ \E i \in 1..Len(loaded[1]._samples) :
          /\ Shdr(OutFile)[i].start > 0
          /\ loaded[1]._samples[i].loopend > 0
          /\ Shdr(OutFile)[i].loopend = loaded[1]._samples[i].loopend + Shdr(OutFile)[i].start

\* C6: after read() returned true, every sample has start 0 and end the
\* length of its decoded PCM; its loop points are the file's minus the
\* file's start for an SF2 source and the file's unchanged for an SF3 or
\* SF4 source.  (The PCM is the range of smpl the record names, when that
\* range lies inside smpl.)
C6_NormalizedAfterRead ==
    ReadOk =>
        LET recs == Shdr(disk.in)
            ss == loaded[1]._samples
        IN  /\ Len(ss) = Len(recs) - 1
            /\ \A i \in 1..Len(ss) :
                  /\ ss[i].start = 0
                  /\ ss[i].sampleData # <<>>
                  /\ ss[i].end = Len(ss[i].sampleData[1])
                  /\ IF loaded[1]._fileFormatIn = "SF2Format"
                     THEN /\ recs[i].end <= Len(Smpl(disk.in))
                                => ss[i].sampleData[1]
                                     = SubSeq(Smpl(disk.in), recs[i].start + 1, recs[i].end)
                          /\ ss[i].loopstart = Sub32(recs[i].loopstart, recs[i].start)
                          /\ ss[i].loopend = Sub32(recs[i].loopend, recs[i].start)
                     ELSE /\ ss[i].sampleData[1] = Smpl(disk.in)[recs[i].start + 1].pcm
                          /\ ss[i].loopstart = recs[i].loopstart
                          /\ ss[i].loopend = recs[i].loopend

\* An SF2 file was read in which a looped sample does not start at 0.
C6_Witness ==
    /\ ReadOk
    /\ loaded[1]._fileFormatIn = "SF2Format"
    /\ \E i \in 1..Len(loaded[1]._samples) :
          /\ Shdr(disk.in)[i].start > 0
          /\ Shdr(disk.in)[i].loopend > Shdr(disk.in)[i].start
          /\ loaded[1]._samples[i].loopend = Shdr(disk.in)[i].loopend - Shdr(disk.in)[i].start

\* C7: after read() returned true, every sample has
\* 0 <= loopstart <= loopend <= numSamples, compared as unsigned 32-bit
\* values; so no file that breaks this is read successfully.
C7_LoopPointsOrdered ==
    ReadOk =>
        \A i \in 1..Len(loaded[1]._samples) :
            LET s == loaded[1]._samples[i]
            IN  /\ ULe(0, s.loopstart)
                /\ ULe(s.loopstart, s.loopend)
                /\ ULe(s.loopend, numSamples(s))

NonDecreasing(seq) == \A i \in 1..(Len(seq) - 1) : seq[i] <= seq[i + 1]

\* The index columns of a file's tables.
BagNdx(file) == [i \in 1..Len(Item(file, "phdr").body) |-> Item(file, "phdr").body[i].presetBagNdx]
InstNdx(file) == [i \in 1..Len(Item(file, "inst").body) |-> Item(file, "inst").body[i].instBagNdx]
GenNdx(file, id) == [i \in 1..Len(Item(file, id).body) |-> Item(file, id).body[i].gen]
ModNdx(file, id) == [i \in 1..Len(Item(file, id).body) |-> Item(file, id).body[i].mod]

Last(seq) == seq[Len(seq)]

\* The number of zones the presets (instruments) own.
OwnedZones(owners) == SumSeq([i \in 1..Len(owners) |-> Len(owners[i].zones)])

\* C8: in every file written, whatever the size of the model, the 16-bit
\* generator and modulator indices of consecutive pbag records and of
\* consecutive ibag records do not decrease, the 16-bit bag indices of
\* consecutive phdr and inst records do not decrease, and the index of the
\* last record of each table is the total count.
C8_IndexTablesMonotonic ==
    Wrote =>
        /\ NonDecreasing(BagNdx(OutFile))
        /\ Last(BagNdx(OutFile)) = OwnedZones(sf._presets)
        /\ NonDecreasing(InstNdx(OutFile))
        /\ Last(InstNdx(OutFile)) = OwnedZones(sf._instruments)
        /\ NonDecreasing(GenNdx(OutFile, "pbag"))
        /\ NonDecreasing(ModNdx(OutFile, "pbag"))
        /\ Last(GenNdx(OutFile, "pbag")) = RunLen(AllGenerators(sf._pZones))
        /\ Last(ModNdx(OutFile, "pbag")) = Len(AllModulators(sf._pZones))
        /\ NonDecreasing(GenNdx(OutFile, "ibag"))
        /\ NonDecreasing(ModNdx(OutFile, "ibag"))
        /\ Last(GenNdx(OutFile, "ibag")) = RunLen(AllGenerators(sf._iZones))
        /\ Last(ModNdx(OutFile, "ibag")) = Len(AllModulators(sf._iZones))

\* The number of records of a table body (pgen and igen are run-length
\* encoded).
Records(ck) == IF ck.id \in {"pgen", "igen"} THEN RunLen(ck.body) ELSE Len(ck.body)

\* A table of the file holds count records and a terminator, declares
\* (count + 1) * size bytes and holds as many.
Table(file, id, count, size) ==
    /\ HasItem(file, id)
    /\ Cardinality({i \in 1..Len(file.items) : file.items[i].id = id}) = 1
    /\ Records(Item(file, id)) = count + 1
    /\ Item(file, id).len = (count + 1) * size
    /\ BodyBytes(Item(file, id)) = Item(file, id).len

\* The last record of a table is a terminator: an empty name, or a record
\* of zeros.
Terminated(file) ==
    /\ \A id \in {"phdr", "inst", "shdr"} : CStr(Last(Item(file, id).body).name) = <<>>
    /\ HasItem(file, "shdX") => CStr(Last(Item(file, "shdX").body).name) = <<>>
    /\ \A id \in {"pmod", "imod"} :
          Last(Item(file, id).body)
             = [src |-> 0, dst |-> 0, amount |-> 0, amtSrc |-> 0, transform |-> 0]
    /\ \A id \in {"pgen", "igen"} : Last(Item(file, id).body).v = [gen |-> 0, amount |-> 0]

\* C9: in every file written, each of phdr, pbag, pmod, pgen, inst, ibag,
\* imod, igen, shdr and (when present) shdX holds one record per entity of
\* the model and then one terminator record, and the size it declares is
\* (count + 1) * recordSize, with record sizes 38, 4, 10, 4, 22, 4, 10, 4,
\* 46 and 32, which is the number of body bytes written.
C9_SentinelDiscipline ==
    Wrote =>
        /\ Table(OutFile, "phdr", Len(sf._presets), 38)
        /\ Table(OutFile, "pbag", Len(sf._pZones), 4)
        /\ Table(OutFile, "pmod", Len(AllModulators(sf._pZones)), 10)
        /\ Table(OutFile, "pgen", RunLen(AllGenerators(sf._pZones)), 4)
        /\ Table(OutFile, "inst", Len(sf._instruments), 22)
        /\ Table(OutFile, "ibag", Len(sf._iZones), 4)
        /\ Table(OutFile, "imod", Len(AllModulators(sf._iZones)), 10)
        /\ Table(OutFile, "igen", RunLen(AllGenerators(sf._iZones)), 4)
        /\ Table(OutFile, "shdr", Len(sf._samples), 46)
        /\ HasItem(OutFile, "shdX") => Table(OutFile, "shdX", Len(sf._samples), 32)
        /\ Terminated(OutFile)

\* A compressed file with shdX, several zones and modulators was written.
C9_Witness ==
    /\ Wrote
    /\ HasItem(OutFile, "shdX")
    /\ Len(sf._samples) > 0
    /\ Len(sf._pZones) > 1
    /\ Len(Item(OutFile, "pmod").body) > 1

\* C10: a file written holds an shdX chunk exactly when the target format
\* is not SF2 and every sample of the model has meta; otherwise it holds no
\* shdX bytes at all.
C10_ShdXGating ==
    Wrote =>
        (HasItem(OutFile, "shdX")
            <=> (opts.format # "SF2Format"
                 /\ \A i \in 1..Len(loaded[1]._samples) : loaded[1]._samples[i].meta # <<>>))

\* A compressed file was written from a model in which one sample has meta
\* and another has none, and it holds no shdX chunk.
C10_Witness ==
    /\ Wrote
    /\ opts.format # "SF2Format"
    /\ \E i \in 1..Len(loaded[1]._samples) : loaded[1]._samples[i].meta # <<>>
    /\ \E i \in 1..Len(loaded[1]._samples) : loaded[1]._samples[i].meta = <<>>
    /\ ~HasItem(OutFile, "shdX")

\* C11: a file written as SF3 or SF4 from an SF2 input holds an shdX chunk
\* with one record per sample, in the order of shdr, and a terminator; the
\* i-th record has the name of the i-th sample (the name field of its shdr
\* record), the length of the sample's decoded PCM as its sample count, and
\* the sample's relative loop points as read() normalised them.
C11_ShdXRecords ==
    (Wrote /\ loaded[1]._fileFormatIn = "SF2Format" /\ opts.format # "SF2Format") =>
        /\ HasItem(OutFile, "shdX")
        /\ Len(Item(OutFile, "shdX").body) = Len(loaded[1]._samples) + 1
        /\ \A i \in 1..Len(loaded[1]._samples) :
              LET rec == Item(OutFile, "shdX").body[i]
                  was == loaded[1]._samples[i]
              IN  /\ rec.name = Shdr(OutFile)[i].name
                  /\ CStr(rec.name) = was.name
                  /\ rec.samples = Len(was.sampleData[1])
                  /\ rec.loopstart = was.loopstart
                  /\ rec.loopend = was.loopend
                  /\ rec.loopstart = Sub32(Shdr(disk.in)[i].loopstart, Shdr(disk.in)[i].start)
                  /\ rec.loopend = Sub32(Shdr(disk.in)[i].loopend, Shdr(disk.in)[i].start)

\* An SF2 file of two looped samples, the second not at offset 0, has been
\* written as SF3 or SF4 with its shdX chunk.
C11_Witness ==
    /\ Wrote
    /\ loaded[1]._fileFormatIn = "SF2Format"
    /\ opts.format # "SF2Format"
    /\ Len(loaded[1]._samples) = 2
    /\ Shdr(disk.in)[2].start > 0
    /\ Item(OutFile, "shdX").body[2].loopend > 0
    /\ Item(OutFile, "shdX").body[1].samples = 3

\* The input of this run is the SF3 file the previous run made of an SF2
\* file, and this run has written it back as SF2.
ThroughVorbis ==
    /\ run > 1
    /\ Wrote
    /\ opts.format = "SF2Format"
    /\ loaded[1]._fileFormatIn = "SF3Format"
    /\ prevLoaded[1]._fileFormatIn = "SF2Format"

\* C12: when an SF2 file x is converted to SF3 at any quality, and that file
\* is read and written as SF2, the shdr of the result holds as many records
\* as that of x, and each sample has the loop length (loopend - loopstart,
\* as a 32-bit value) and the number of sample frames (end - start) it has
\* in x.
C12_LoopLengthThroughVorbis ==
    ThroughVorbis =>
        LET x == Shdr(disk.prev[1])
            y == Shdr(OutFile)
        IN  /\ Len(y) = Len(x)
            /\ \A i \in 1..(Len(x) - 1) :
                  /\ Sub32(y[i].loopend, y[i].loopstart) = Sub32(x[i].loopend, x[i].loopstart)
                  /\ Sub32(y[i].end, y[i].start) = Sub32(x[i].end, x[i].start)

\* Two looped samples went from SF2 through SF3 back to SF2,
\* the second of them lying after a gap in the first file and changed by
\* the lossy codec.
C12_Witness ==
    /\ ThroughVorbis
    /\ Len(loaded[1]._samples) = 2
    /\ Shdr(disk.prev[1])[2].start # Shdr(OutFile)[2].start
    /\ Shdr(OutFile)[2].loopend > Shdr(OutFile)[2].loopstart
    /\ loaded[1]._samples[2].sampleData # prevLoaded[1]._samples[2].sampleData

\* The type bits of a sample other than the two compression bits.
ChannelBits(sampletype) == ClearBit(ClearBit(sampletype, TypeVorbis), TypeFlac)

\* C13: in every file written, the sampletype of every sample's shdr record
\* has bit 16 (TypeVorbis) set exactly when the target is SF3 and bit 32
\* (TypeFlac) set exactly when the target is SF4, so neither for target
\* SF2; all its other bits are those of the sampletype read from the
\* input's shdr record.
C13_CompressionBits ==
    Wrote =>
        \A i \in 1..Len(loaded[1]._samples) :
            LET t == Shdr(OutFile)[i].sampletype
            IN  /\ HasBit(t, TypeVorbis) <=> opts.format = "SF3Format"
                /\ HasBit(t, TypeFlac) <=> opts.format = "SF4Format"
                /\ ChannelBits(t) = ChannelBits(Shdr(disk.in)[i].sampletype)
                /\ sf._samples[i].sampletype = t

\* A sample whose input record carries the FLAC bit and the mono bit has
\* been written as SF3.
C13_Witness ==
    /\ Wrote
    /\ opts.format = "SF3Format"
    /\ Len(loaded[1]._samples) > 0
    /\ Shdr(disk.in)[1].sampletype = Mono + TypeFlac
    /\ Shdr(OutFile)[1].sampletype = Mono + TypeVorbis

\* Some two consecutive records of a chunk `id` of the file hold values of
\* `field` of which the second is the smaller.
DecreasesIn(file, id, field) ==
    \E c \in 1..Len(file.items) :
        /\ file.items[c].id = id
        /\ \E i \in 1..(Len(file.items[c].body) - 1) :
              file.items[c].body[i + 1][field] < file.items[c].body[i][field]

Decreases(file) ==
    \/ DecreasesIn(file, "phdr", "presetBagNdx")
    \/ DecreasesIn(file, "inst", "instBagNdx")
    \/ DecreasesIn(file, "pbag", "gen") \/ DecreasesIn(file, "pbag", "mod")
    \/ DecreasesIn(file, "ibag", "gen") \/ DecreasesIn(file, "ibag", "mod")

RomChunks == {"irom", "iver"}

\* The bytes the irom and iver chunks take between item i and the next LIST
\* header.
RECURSIVE RomBytes(_, _)
RomBytes(items, i) ==
    IF i > Len(items) \/ items[i].id = "LIST" THEN 0
    ELSE (IF items[i].id \in RomChunks THEN 8 + BodyBytes(items[i]) ELSE 0)
         + RomBytes(items, i + 1)

\* The file without its irom and iver chunks, the lengths of the LISTs and
\* of the RIFF reduced by the bytes taken out.
WithoutRom(file) ==
    LET short == [i \in 1..Len(file.items) |->
                    IF file.items[i].id = "LIST"
                    THEN [file.items[i] EXCEPT !.len = @ - RomBytes(file.items, i + 1)]
                    ELSE file.items[i]]
        kept == SelectSeq(short, LAMBDA ck : ck.id \notin RomChunks)
    IN  [file EXCEPT !.items = kept, !.riffLen = 4 + ChunksBytes(kept)]

\* What read() gives does not depend on where in the file smpl lies.
Model(o) == [o EXCEPT !._samplePos = 0]

\* This run's read() returned true with the model that the read r gave.
ReadAs(r) == r.st = "true" => (ReadOk /\ Model(loaded[1]) = Model(r.o))

\* C15: when the input holds an irom or an iver chunk and, without it, is a
\* file that read() accepts, read() returns true with the model it gives
\* for the file without that chunk.
C15_RomChunksSkipped ==
    (ReadDone /\ \E id \in RomChunks : HasItem(disk.in, id))
        => ReadAs(read(NewSoundFont, WithoutRom(disk.in)))

\* The text of the ICMT chunk of a file, empty when it has none.
Icmt(file) == IF HasItem(file, "ICMT") THEN CStr(Item(file, "ICMT").body) ELSE <<>>

\* C16: when the input is SF3 or SF4 and the target is SF2, the ICMT chunk
\* of the file written holds the input's comment followed by the advisory
\* text.
C16_CautionWhenExpanding ==
    (Wrote /\ loaded[1]._fileFormatIn # "SF2Format" /\ opts.format = "SF2Format") =>
        /\ HasItem(OutFile, "ICMT")
        /\ Icmt(OutFile) = loaded[1]._comment \o CautionText

\* C16, amended: when the input is SF3 and the target is SF2 or SF4, the
\* ICMT chunk of the file written holds the input's comment followed by the
\* advisory text; for every other pair of input and target formats --
\* among them an SF4 input written as SF2 -- the file holds the input's
\* comment alone, and no ICMT chunk when that is empty.
C16_CautionForVorbisSource ==
    Wrote =>
        IF loaded[1]._fileFormatIn = "SF3Format" /\ opts.format # "SF3Format"
        THEN /\ HasItem(OutFile, "ICMT")
             /\ Icmt(OutFile) = loaded[1]._comment \o CautionText
        ELSE /\ HasItem(OutFile, "ICMT") <=> loaded[1]._comment # <<>>
             /\ Icmt(OutFile) = loaded[1]._comment

\* An SF3 file with a comment has been written as SF2.
C16_Witness ==
    /\ Wrote
    /\ loaded[1]._fileFormatIn = "SF3Format"
    /\ opts.format = "SF2Format"
    /\ loaded[1]._comment # <<>>
    /\ Len(Icmt(OutFile)) = Len(loaded[1]._comment) + Len(CautionText)

\* The INFO text chunks of a file.
TextChunks(file) ==
    {i \in 1..Len(file.items) :
        file.items[i].id \in {InfoFields[k][1] : k \in 1..Len(InfoFields)}}

\* The payload of a text chunk: its string and the NUL that ends it.
Payload(ck) == Len(CStr(ck.body)) + 1

\* C17: every INFO text chunk of a file written declares the length of its
\* payload before padding (the bytes of the string and the NUL that ends
\* it); when that is odd, exactly one zero byte follows the payload and the
\* declared length stays odd.
C17_DeclaredLengthUnpadded ==
    Wrote =>
        \A i \in TextChunks(OutFile) :
            LET ck == OutFile.items[i]
            IN  /\ ck.len = Payload(ck)
                /\ Len(ck.body) = IF Payload(ck) % 2 = 1 THEN Payload(ck) + 1 ELSE Payload(ck)

\* C17, amended: every INFO text chunk of a file written declares the
\* length of its payload rounded up to an even number, which is the number
\* of body bytes written: when the payload is odd, exactly one zero byte
\* follows it and is counted in the declared length.
C17_DeclaredLengthPadded ==
    Wrote =>
        \A i \in TextChunks(OutFile) :
            LET ck == OutFile.items[i]
            IN  /\ ck.len = Payload(ck) + (Payload(ck) % 2)
                /\ ck.len % 2 = 0
                /\ Len(ck.body) = ck.len
                /\ \A j \in Payload(ck)..Len(ck.body) : ck.body[j] = 0

\* A text chunk with a payload of three bytes has been written.
C17_Witness ==
    /\ Wrote
    /\ \E i \in TextChunks(OutFile) :
          /\ Payload(OutFile.items[i]) = 3
          /\ Len(OutFile.items[i].body) = 4

\* main has left its argument handling.
ArgsDone == pc # "args"

\* C18: whenever no action flag (-x, -z, -o, -f, -d) was given, or the
\* arguments left after the flags are not exactly two, main prints the usage
\* and exits with status 1 and no file is read.
C18_UsageOnBadArguments ==
    (ArgsDone /\ (~opts.any \/ Len(commandLine) # 2))
        => (pc = "exit" /\ status = <<1>> /\ ~ReadDone /\ sf = NewSoundFont)

\* C19: the output file is opened and written, and presets are dumped,
\* only after read() returned true; when read() has failed, for whatever
\* reason, the process has exited with status 3, no output file exists and
\* nothing was dumped.
C19_NoWriteAfterFailedRead ==
    /\ (disk.out # <<>> \/ dumped) => ReadOk
    /\ (ReadDone /\ ~ReadOk) =>
          (pc = "exit" /\ status = <<3>> /\ disk.out = <<>> /\ ~dumped)

\* C20: when a write on the output stream has failed during write(), the
\* error was handled inside write() -- which stopped writing and returned
\* false -- so that main went on to its end and the process has exited
\* with a status other than 0.
C20_WriteErrorHandled ==
    disk.full => (pc = "exit" /\ status # <<>> /\ status # <<0>>)

\* The differences of consecutive entries of a sequence of indices.
Diffs(seq) == [i \in 1..(Len(seq) - 1) |-> seq[i + 1] - seq[i]]

\* C21: for every file read() accepts, each index table of the file
\* written has the consecutive differences of the same table of the input:
\* the zone counts of the presets and instruments and the generator and
\* modulator counts of the zones, in the same order.
C21_IndexDifferencesKept ==
    Wrote =>
        /\ Diffs(BagNdx(OutFile)) = Diffs(BagNdx(disk.in))
        /\ Diffs(InstNdx(OutFile)) = Diffs(InstNdx(disk.in))
        /\ \A id \in {"pbag", "ibag"} :
              /\ Diffs(GenNdx(OutFile, id)) = Diffs(GenNdx(disk.in, id))
              /\ Diffs(ModNdx(OutFile, id)) = Diffs(ModNdx(disk.in, id))

\* What the two loops of read() do with a file whose RIFF header is right.
Walk(file) == readLists(NewSoundFont, file.items, 1, TRUE, Sub32(file.riffLen, 4), NewTrace)

\* A loop of read() went on past the declared end of a body.
WentBelow(w) == w.trace.below

\* C22: read() fails whenever the length that remains of a LIST or of the
\* RIFF body becomes negative, that is, whenever a loop goes on to read a
\* header beyond the declared end of the body it walks.
C22_FailsBeyondDeclaredEnd ==
    ReadDone => (WentBelow(Walk(disk.in)) => ~ReadOk)

\* C23: after a successful read of a file with an shdX chunk, shdX holds
\* one record per sample (besides its terminator) and the i-th sample has
\* the meta record of the i-th shdX record, whose name is the sample's.
C23_ShdXMatchesSamples ==
    (ReadOk /\ HasItem(disk.in, "shdX")) =>
        /\ Len(Item(disk.in, "shdX").body) - 1 = Len(loaded[1]._samples)
        /\ \A i \in 1..Len(loaded[1]._samples) :
              /\ loaded[1]._samples[i].meta # <<>>
              /\ loaded[1]._samples[i].meta[1].name = loaded[1]._samples[i].name

\* The chunk walk w went through and every sample it left has a whole
\* stream of the file's codec at its offsets in smpl.
Decoded(w, items) ==
    /\ w.st = "ok"
    /\ w.o._fileFormatIn \in {"SF3Format", "SF4Format"}
    /\ SmplBody(w.o, items).unit = "bytes"
    /\ \A i \in 1..Len(w.o._samples) :
          /\ w.o._samples[i].start >= 0
          /\ w.o._samples[i].start <= w.o._samples[i].end
          /\ w.o._samples[i].end <= Len(SmplBody(w.o, items).cells)
          /\ Decodable(IF w.o._fileFormatIn = "SF3Format" THEN "vorbis" ELSE "flac",
                       SubSeq(SmplBody(w.o, items).cells,
                              w.o._samples[i].start + 1, w.o._samples[i].end))

\* The meta record of the sample agrees with what was decoded.
MetaAgrees(s) ==
    /\ s.meta[1].samples = Len(s.sampleData[1])
    /\ Sub32(s.meta[1].loopend, s.meta[1].loopstart) = Sub32(s.loopend, s.loopstart)

\* C24: checkMeta() is true exactly when the sample has no meta record or
\* the record's sample count is the decoded count and its loop length is
\* the sample's; and the read of an SF3 or SF4 file whose chunks are read
\* and whose samples all decode returns true whatever checkMeta() says.
C24_MetaMismatchTolerated ==
    /\ ReadOk =>
          \A i \in 1..Len(loaded[1]._samples) :
              checkMeta(loaded[1]._samples[i])
                  <=> (loaded[1]._samples[i].meta = <<>> \/ MetaAgrees(loaded[1]._samples[i]))
    /\ (ReadDone /\ Decoded(Walk(disk.in), disk.in.items)) => ReadOk

\* A compressed file has been read with a sample whose meta record does
\* not agree with what was decoded.
C24_Witness ==
    /\ ReadOk
    /\ loaded[1]._fileFormatIn \in {"SF3Format", "SF4Format"}
    /\ \E i \in 1..Len(loaded[1]._samples) :
          /\ loaded[1]._samples[i].meta # <<>>
          /\ ~MetaAgrees(loaded[1]._samples[i])
          /\ ~checkMeta(loaded[1]._samples[i])

\* The modulators of the zones in flat zone order.
FlatModulators(zones) == Flatten([z \in 1..Len(zones) |-> zones[z].modulators])

\* The generators of the zones in flat zone order, as runs.
FlatGenerators(zones) == RunCat(<<>>, Flatten([z \in 1..Len(zones) |-> zones[z].generators]))

\* The first count records of a pgen/igen body as readGen stores them.
GeneratorsRead(body, count) ==
    LET recs == RunTake(body, count)
    IN  RunCat(<<>>, [j \in 1..Len(recs) |-> [n |-> recs[j].n, v |-> readGenerator(recs[j].v)]])

\* The zones hold the first records of the mod and gen chunks of the file,
\* in flat zone order, and each chunk declares one record more than that.
ZonesPopulated(zones, file, mod, gen) ==
    /\ Item(file, mod).len = (Len(FlatModulators(zones)) + 1) * 10
    /\ Item(file, gen).len = (RunLen(FlatGenerators(zones)) + 1) * 4
    /\ Len(Item(file, mod).body) > Len(FlatModulators(zones))
    /\ FlatModulators(zones)
          = [j \in 1..Len(FlatModulators(zones)) |-> readModulator(Item(file, mod).body[j])]
    /\ FlatGenerators(zones)
          = GeneratorsRead(Item(file, gen).body, RunLen(FlatGenerators(zones)))

ShiftedByStart(before, after) ==
    /\ Len(after) = Len(before)
    /\ \A i \in 1..Len(before) :
          /\ after[i].start = before[i].start
          /\ after[i].loopstart = Add32(before[i].loopstart, before[i].start)
          /\ after[i].loopend = Add32(before[i].loopend, before[i].start)

\* C26: once write() has written the model as SF2, the loop points the
\* samples hold in memory are the ones read, which are relative, plus the
\* start written; and writing the model as SF2 once more moves them up by
\* the start again.
C26_LoopsStayAbsolute ==
    (Wrote /\ ReadOk /\ opts.format = "SF2Format") =>
        /\ Len(sf._samples) = Len(loaded[1]._samples)
        /\ \A i \in 1..Len(sf._samples) :
              /\ sf._samples[i].loopstart
                    = Add32(loaded[1]._samples[i].loopstart, sf._samples[i].start)
              /\ sf._samples[i].loopend
                    = Add32(loaded[1]._samples[i].loopend, sf._samples[i].start)
        /\ \A uninit \in UninitVersions :
              ShiftedByStart(sf._samples, write(sf, "SF2Format", <<>>, uninit).o._samples)

\* A model has been written as SF2 with a sample that starts after the
\* first cell of smpl and has a loop.
C26_Witness ==
    /\ Wrote /\ ReadOk /\ opts.format = "SF2Format"
    /\ \E i \in 1..Len(sf._samples) :
          /\ sf._samples[i].start > 0
          /\ loaded[1]._samples[i].loopend > loaded[1]._samples[i].loopstart
          /\ sf._samples[i].loopstart = loaded[1]._samples[i].loopstart + sf._samples[i].start

\* C27: the option loop of main() ends for every argument vector: a run
\* that is in the loop gets out of it.
C27_ParsingTerminates ==
    (pc = "args" /\ Len(commandLine) > 2) ~> ~(pc = "args" /\ Len(commandLine) > 2)

\* C28: when read() returns true for an SF2 file, every sample record of
\* shdr has start <= end and an end inside the smpl chunk (end * 2 <=
\* _sampleLen), and every sample of the data in memory was read from the
\* smpl chunk.
C28_RawRangeChecked ==
    (ReadOk /\ loaded[1]._fileFormatIn = "SF2Format") =>
        \A i \in 1..Len(loaded[1]._samples) :
            /\ Item(disk.in, "shdr").body[i].start <= Item(disk.in, "shdr").body[i].end
            /\ Item(disk.in, "shdr").body[i].end * WordBytes <= loaded[1]._sampleLen
            /\ \A j \in 1..Len(loaded[1]._samples[i].sampleData[1]) :
                  loaded[1]._samples[i].sampleData[1][j] # Junk

\* The sum of 8 + declared length over the chunks.
RECURSIVE Declared(_)
Declared(chunks) ==
    IF chunks = <<>> THEN 0 ELSE 8 + Head(chunks).len + Declared(Tail(chunks))

\* The index of the last item before the next LIST header after item l.
ListEnd(items, l) ==
    IF \E k \in (l + 1)..Len(items) : items[k].id = "LIST"
    THEN (CHOOSE k \in (l + 1)..Len(items) :
             /\ items[k].id = "LIST"
             /\ \A j \in (l + 1)..(k - 1) : items[j].id # "LIST") - 1
    ELSE Len(items)

\* The LIST headers of a file.
Lists(file) == {l \in 1..Len(file.items) : file.items[l].id = "LIST"}

\* The walk w of read() never went past a declared end, and when no
\* handler threw it ended, both counters zero, at the end of the file.
CountersReachZero(w, file) ==
    /\ ~WentBelow(w)
    /\ w.st = "ok" => w.i = Len(file.items) + 1

\* C29: in every file a write has completed, the RIFF length is the size of
\* the file minus 8, each of the three LIST lengths is 4 plus the sum of
\* (8 + declared length) over the chunks of the LIST, and the smpl length
\* is the number of bytes written for the samples; so the lengths of the
\* LISTs add up to the RIFF length, and the counters of read() on that
\* file are zero exactly at the end of each LIST and of the file.
C29_WrittenLengths ==
    Wrote =>
        /\ OutFile.riffLen = (12 + ChunksBytes(OutFile.items)) - 8
        /\ Cardinality(Lists(OutFile)) = 3
        /\ \A l \in Lists(OutFile) :
              OutFile.items[l].len
                  = 4 + Declared(SubSeq(OutFile.items, l + 1, ListEnd(OutFile.items, l)))
        /\ Item(OutFile, "smpl").len = BodyBytes(Item(OutFile, "smpl"))
        /\ OutFile.riffLen - 4
              = SumSeq([i \in 1..Len(OutFile.items) |->
                          IF OutFile.items[i].id = "LIST" THEN 8 + OutFile.items[i].len ELSE 0])
        /\ CountersReachZero(Walk(OutFile), OutFile)

\* A file with sample data and a comment has been written, and the walk of
\* read() over it ends at the end of the file.
C29_Witness ==
    /\ Wrote
    /\ Item(OutFile, "smpl").len > 0
    /\ ReadOk /\ loaded[1]._comment # <<>>
    /\ Walk(OutFile).st = "ok"
    /\ Walk(OutFile).i = Len(OutFile.items) + 1

\* Every handler that returned to the walk w consumed as many bytes as its
\* chunk declares.
ConsumedDeclared(w) == w.trace.exact

\* C30: whenever readSection returns normally for a chunk of declared
\* length len, the handler has consumed exactly len bytes of the file.
C30_HandlersConsumeDeclared ==
    ReadDone => ConsumedDeclared(Walk(disk.in))

====
